---------------------------- MODULE Spec2Model ----------------------------
(***************************************************************************)
(* A model of the spreadsheet normalization pipeline of the yacht          *)
(* comparison dashboard: yacht_etl.build_master_csv with its column map    *)
(* and unit helper, and the file it writes at output_path.  Spec follows   *)
(* one call, SpecTwice a call and its repetition, SpecConcurrent two       *)
(* invocations that write the same file, SpecUI the reruns of the page     *)
(* whose sidebar makes the call, SpecMapping a call for sheets with other  *)
(* header rows, SpecLogger the calls of setup_logger, SpecFilters the      *)
(* reruns of the page with its sidebar filters.                            *)
(*                                                                         *)
(* Text is a sequence of one-character strings, so that the substring      *)
(* tests, the case folding and the stripping of the code are computed.     *)
(* A table (pandas DataFrame) is a record [columns, rows]; a row carries   *)
(* the index label it had in the sheet (pandas keeps index labels through  *)
(* boolean filtering) and its cells.  Rows are sparse: a column of the     *)
(* table that a row does not list holds NA in that row.                    *)
(***************************************************************************)
EXTENDS Integers, Sequences, FiniteSets, TLC

\* ------------------------------------------------------------------ bounds
\* Longest enumerated sheet of the row scenarios.
MaxRows == 4
\* Longest sheet of the schema scenarios (templates and header sets vary).
MaxSchemaRows == 1

\* ------------------------------------------------------------ sequences
Range(s) == { s[i] : i \in DOMAIN s }

RECURSIVE SelectIdx(_, _, _)
\* The elements of s whose position is in keep, in their order, from position i on.
SelectIdx(s, keep, i) ==
  IF i > Len(s) THEN << >>
  ELSE IF i \in keep THEN << s[i] >> \o SelectIdx(s, keep, i + 1)
       ELSE SelectIdx(s, keep, i + 1)

Without(s, drop) == SelectIdx(s, { i \in DOMAIN s : s[i] \notin drop }, 1)

\* x in s, for a sequence s.
In(x, s) == \E i \in DOMAIN s : s[i] = x

Reverse(s) == [ i \in DOMAIN s |-> s[Len(s) + 1 - i] ]

\* ----------------------------------------------------------------- text
LowerCase == <<"a","b","c","d","e","f","g","h","i","j","k","l","m",
               "n","o","p","q","r","s","t","u","v","w","x","y","z">>
UpperCase == <<"A","B","C","D","E","F","G","H","I","J","K","L","M",
               "N","O","P","Q","R","S","T","U","V","W","X","Y","Z">>
Whitespace == {" ", "\t", "\n"}

\* str.upper() on one character.
UpperChar(c) ==
  IF \E i \in DOMAIN LowerCase : LowerCase[i] = c
  THEN UpperCase[CHOOSE i \in DOMAIN LowerCase : LowerCase[i] = c]
  ELSE c

\* str.upper()
Upper(s) == [ i \in DOMAIN s |-> UpperChar(s[i]) ]

\* sub in s
Contains(s, sub) ==
  \E i \in 1..(Len(s) - Len(sub) + 1) : SubSeq(s, i, i + Len(sub) - 1) = sub

\* str.strip(): leading and trailing whitespace removed.
Strip(s) ==
  LET ink == { i \in DOMAIN s : s[i] \notin Whitespace } IN
  IF ink = {} THEN << >>
  ELSE SubSeq(s, CHOOSE i \in ink : \A j \in ink : i <= j,
                 CHOOSE i \in ink : \A j \in ink : j <= i)

\* The literals of the code.
DISPLACEMENT == <<"D","I","S","P","L","A","C","E","M","E","N","T">>
SEMI == <<"S","E","M","I">>
FULL == <<"F","U","L","L">>
Units == <<"U","n","i","t","s">>
SEMI_DISPLACEMENT == <<"S","E","M","I","-","D","I","S","P","L","A","C","E","M","E","N","T">>
FULL_DISPLACEMENT == <<"F","U","L","L"," ","D","I","S","P","L","A","C","E","M","E","N","T">>
nan == <<"n","a","n">>

\* --------------------------------------------------------------- values
\* A cell value: missing (NaN, pd.NA, None), text, or a number.  A number is
\* kept exactly, as an integer count of twelfths (Num(66) is 5.5), the unit in
\* which feet + inches / 12.0 of whole inches is exact.
InchesPerFoot == 12
NA == [t |-> "na", s |-> << >>, n |-> 0]
Str(s) == [t |-> "str", s |-> s, n |-> 0]
Num(n) == [t |-> "num", s |-> << >>, n |-> n]
isna(v) == v.t = "na"

\* ----------------------------------------------------------- column map
\* EXCEL_COLUMN_MAP in the order of the dict: <<external header, internal name>>.
EXCEL_COLUMN_PAIRS ==
  << <<"Name", "name">>,
     <<"Base Price (2023)", "base_price_million_eur">>,
     <<"Price / m2", "price_m2">>,
     <<"Price/GT  (Euros/Gross Ton)", "price_gt">>,
     <<"Price/Ton  (Euros/Metric Ton)", "price_ton">>,
     <<"LOA", "loa_m">>,
     <<"LWL", "lwl_m">>,
     <<"Max beam", "beam_m">>,
     <<"Draft at full load", "draft_full_m">>,
     <<"Unnamed: 14", "loa_ft">>,
     <<"Unnamed: 15", "loa_in">>,
     <<"Unnamed: 11", "lwl_ft">>,
     <<"Unnamed: 12", "lwl_in">>,
     <<"Unnamed: 17", "beam_ft">>,
     <<"Unnamed: 18", "beam_in">>,
     <<"Unnamed: 20", "draft_full_ft">>,
     <<"Unnamed: 21", "draft_full_in">>,
     <<"Area", "area_m2">>,
     <<"Material", "material">>,
     <<"Full load Displacement", "displacement_t">>,
     <<"Gross tonnage", "gross_tonnage">>,
     <<"Fuel oil capacity", "fuel_oil_cap">>,
     <<"Urea", "urea_cap">>,
     <<"Fresh water capacity", "fresh_water_cap">>,
     <<"Waste water capacity", "waste_water_cap">>,
     <<"Range @ Speed", "range_nm_raw">>,
     <<"Cruise speed (80%)", "cruise_speed_kn_raw">>,
     <<"Max speed", "max_speed_kn_raw">>,
     <<"Largest Engine", "engine_raw">>,
     <<"Consumption (Estimation)", "consumption_raw">>,
     <<"Propulsion", "propulsion_raw">>,
     <<"Generators (Recommended)", "generators_raw">>,
     <<"Bow thr.", "bow_thr_raw">>,
     <<"Stabilizers", "stabilizers_raw">>,
     <<"Guest cabins std", "guest_cabins_std_raw">>,
     <<"N. beds std", "guest_beds_std_raw">>,
     <<"N. guest bathr. std", "guest_bathrooms_std_raw">>,
     <<"Crew cabins", "crew_cabins_raw">>,
     <<"Crew Bathrooms", "crew_bathrooms_raw">>,
     <<"No. of Crew std", "crew_std_raw">>,
     <<"N. Jet ski (OPT)", "jet_ski_raw">>,
     <<"Length\nMain Tender", "tender_length_m">>,
     <<"Notes", "notes_raw">> >>

EXCEL_COLUMN_MAP(h) ==
  EXCEL_COLUMN_PAIRS[CHOOSE i \in DOMAIN EXCEL_COLUMN_PAIRS : EXCEL_COLUMN_PAIRS[i][1] = h][2]

REQUIRED_EXCEL_COLUMNS == [ i \in DOMAIN EXCEL_COLUMN_PAIRS |-> EXCEL_COLUMN_PAIRS[i][1] ]

\* The dict of the final DataFrame, in the order of its keys:
\* <<output field, how it is computed, source column, second source column>>.
ASSEMBLY ==
  << <<"name", "copy", "name", "name">>,
     <<"base_price", "numeric", "base_price_million_eur", "base_price_million_eur">>,
     <<"price_m2", "round", "price_m2", "price_m2">>,
     <<"price_gt", "round", "price_gt", "price_gt">>,
     <<"price_ton", "round", "price_ton", "price_ton">>,
     <<"loa_metric", "numeric", "loa_m", "loa_m">>,
     <<"loa_imperial", "ft_in", "loa_ft", "loa_in">>,
     <<"lwl_metric", "numeric", "lwl_m", "lwl_m">>,
     <<"lwl_imperial", "ft_in", "lwl_ft", "lwl_in">>,
     <<"beam_metric", "numeric", "beam_m", "beam_m">>,
     <<"beam_imperial", "ft_in", "beam_ft", "beam_in">>,
     <<"draft_full_load_metric", "numeric", "draft_full_m", "draft_full_m">>,
     <<"draft_full_load_imperial", "ft_in", "draft_full_ft", "draft_full_in">>,
     <<"area", "numeric", "area_m2", "area_m2">>,
     <<"material", "copy", "material", "material">>,
     <<"full_load_displacement_t", "numeric", "displacement_t", "displacement_t">>,
     <<"gross_tonnage", "numeric", "gross_tonnage", "gross_tonnage">>,
     <<"fuel_oil", "numeric", "fuel_oil_cap", "fuel_oil_cap">>,
     <<"urea", "numeric", "urea_cap", "urea_cap">>,
     <<"fresh_water", "numeric", "fresh_water_cap", "fresh_water_cap">>,
     <<"waste_water", "numeric", "waste_water_cap", "waste_water_cap">>,
     <<"range_nm", "numeric", "range_nm_raw", "range_nm_raw">>,
     <<"cruise_speed_kn", "numeric", "cruise_speed_kn_raw", "cruise_speed_kn_raw">>,
     <<"max_speed_kn", "numeric", "max_speed_kn_raw", "max_speed_kn_raw">>,
     <<"engine", "copy", "engine_raw", "engine_raw">>,
     <<"consumption", "round", "consumption_raw", "consumption_raw">>,
     <<"propulsion", "copy", "propulsion_raw", "propulsion_raw">>,
     <<"generators", "copy", "generators_raw", "generators_raw">>,
     <<"bow_thr", "copy", "bow_thr_raw", "bow_thr_raw">>,
     <<"stabilizers", "copy", "stabilizers_raw", "stabilizers_raw">>,
     <<"guest_cabins_std", "numeric", "guest_cabins_std_raw", "guest_cabins_std_raw">>,
     <<"guest_beds_std", "numeric", "guest_beds_std_raw", "guest_beds_std_raw">>,
     <<"guest_bathrooms_std", "numeric", "guest_bathrooms_std_raw", "guest_bathrooms_std_raw">>,
     <<"crew_cabins", "numeric", "crew_cabins_raw", "crew_cabins_raw">>,
     <<"crew_bathrooms", "numeric", "crew_bathrooms_raw", "crew_bathrooms_raw">>,
     <<"crew", "numeric", "crew_std_raw", "crew_std_raw">>,
     <<"jet_ski", "numeric", "jet_ski_raw", "jet_ski_raw">>,
     <<"tender_length", "numeric", "tender_length_m", "tender_length_m">>,
     <<"displacement_type", "copy", "displacement_type", "displacement_type">>,
     <<"notes", "copy", "notes_raw", "notes_raw">> >>

AssembledFields == [ i \in DOMAIN ASSEMBLY |-> ASSEMBLY[i][1] ]

\* --------------------------------------------------------------- tables
\* A row: the index label (the row's position in the sheet) and its cells,
\* a function from column names to values that lists no NA.
NoCells == [ c \in {} |-> NA ]
Cell(row, c) == IF c \in DOMAIN row.cells THEN row.cells[c] ELSE NA

\* row[c] = v
SetCell(row, c, v) ==
  [ row EXCEPT !.cells =
      [ x \in (IF isna(v) THEN DOMAIN row.cells \ {c} ELSE DOMAIN row.cells \cup {c})
          |-> IF x = c THEN v ELSE row.cells[x] ] ]

NoTable == [columns |-> << >>, rows |-> << >>]
NoError == [type |-> "none", names |-> << >>, available |-> << >>]

\* df[keep]: boolean indexing, keep a predicate on the position of the row.
FilterRows(df, keep) == [ df EXCEPT !.rows = SelectIdx(df.rows, keep, 1) ]

\* --------------------------------------------------------------- inputs
\* The contents of the Name cells the sheets are built from.
FullMarkerName == <<"F","U","L","L"," ","D","I","S","P","L","A","C","E","M","E","N","T">>
SemiMarkerName == <<"S","e","m","i","-","D","i","s","p","l","a","c","e","m","e","n","t"," ">>
OtherMarkerName == <<" ","F","a","s","t"," ","D","i","s","p","l","a","c","e","m","e","n","t">>
BothMarkerName ==
  <<"F","u","l","l"," ","/"," ","S","e","m","i"," ","D","i","s","p","l","a","c","e","m","e","n","t">>
SemiDispName == <<"S","e","m","i"," ","D","i","s","p",".">>
LowerUnitsName == <<"u","n","i","t","s">>
NotAvailableName == <<"N","/","A">>
YachtNames == << <<"A">>, <<"B">>, <<"C">>, <<"D">>, <<"E">>, <<"F">>, <<"G">>, <<"H">> >>
EmptyText == << >>

\* The kinds of row the enumerated sheets are made of: all of them in the
\* short sheets, all but the marker of an unknown category in the long ones.
AllKinds == {"full", "semi", "other", "units", "blank", "yacht"}
RowKinds == AllKinds \ {"other"}

\* The Name cell of a row of kind k; y yacht rows stand above it.
NameCellOf(k, y) ==
  CASE k = "full"  -> Str(FullMarkerName)
    [] k = "semi"  -> Str(SemiMarkerName)
    [] k = "other" -> Str(OtherMarkerName)
    [] k = "units" -> Str(Units)
    [] k = "blank" -> NA
    [] k = "yacht" -> Str(YachtNames[y + 1])

RECURSIVE NameCells(_, _, _)
NameCells(kinds, i, y) ==
  IF i > Len(kinds) THEN << >>
  ELSE << NameCellOf(kinds[i], y) >>
         \o NameCells(kinds, i + 1, IF kinds[i] = "yacht" THEN y + 1 ELSE y)

KindSeqs(kinds, n) == UNION { [1..m -> kinds] : m \in 0..n }

\* The sheet of the forward-fill example, a sheet whose Name cells hold text
\* that the reader takes for missing and a lower-case "units", and a sheet
\* with a marker of an unknown category, and a sheet with a marker that
\* names both categories.
ExampleNames ==
  << Str(FullMarkerName), Str(YachtNames[1]), Str(YachtNames[2]),
     Str(SemiDispName), Str(YachtNames[3]) >>
NaTextNames ==
  << Str(FullMarkerName), Str(EmptyText), Str(LowerUnitsName),
     Str(NotAvailableName), Str(YachtNames[1]) >>
OtherLabelNames ==
  << Str(YachtNames[1]), Str(OtherMarkerName), Str(Units), Str(YachtNames[2]),
     Str(SemiMarkerName), Str(YachtNames[3]) >>
BothLabelNames ==
  << Str(BothMarkerName), Str(YachtNames[1]), Str(OtherMarkerName), Str(YachtNames[2]) >>

\* The rows of a sheet with the given columns and Name cells; every other
\* cell is blank.
SheetRows(columns, names) ==
  [ i \in DOMAIN names |->
      IF "Name" \in Range(columns) /\ ~isna(names[i])
      THEN [ c \in {"Name"} |-> names[i] ] ELSE NoCells ]

Sheet(columns, names) == [columns |-> columns, rows |-> SheetRows(columns, names)]

\* Templates: the header row of the file at template_path.
Template(header) == [readable |-> TRUE, header |-> header]
UnreadableTemplate == [readable |-> FALSE, header |-> << >>]
ShortTemplate ==
  <<"displacement_type", "name", "stabilizers", "bow_thr", "generators", "engine">>
UncoveredTemplate ==
  <<"name", "hull_id", "engine", "generators", "bow_thr", "stabilizers", "builder">>
NoEngineTemplate == <<"name", "displacement_type", "generators", "bow_thr", "stabilizers">>

TemplatePool ==
  { Template(AssembledFields), Template(Reverse(AssembledFields)),
    Template(ShortTemplate), Template(UncoveredTemplate),
    Template(NoEngineTemplate), UnreadableTemplate }

\* Header rows of the selected sheet.
HeaderPool ==
  { REQUIRED_EXCEL_COLUMNS,
    Reverse(REQUIRED_EXCEL_COLUMNS),
    Append(REQUIRED_EXCEL_COLUMNS, "Comments"),
    Without(REQUIRED_EXCEL_COLUMNS, {"Max beam"}),
    Append(Without(REQUIRED_EXCEL_COLUMNS, {"Max beam", "Notes"}), "Comments"),
    Without(REQUIRED_EXCEL_COLUMNS, {"Name"}) }

\* The file at output_path: no file, or a header line and row lines.
Absent == [exists |-> FALSE, header |-> << >>, rows |-> << >>]
OldFile ==
  [exists |-> TRUE, header |-> <<"name", "displacement_type">>,
   rows |-> << <<Str(YachtNames[8]), Str(FULL_DISPLACEMENT)>> >>]

\* The calls of build_master_csv that are explored: every sheet of up to
\* MaxRows rows with the full header row and the full template, and every
\* template and header row of the pools with the sheets of up to
\* MaxSchemaRows rows.
RowInputs ==
  { [template |-> Template(AssembledFields),
     excel |-> Sheet(REQUIRED_EXCEL_COLUMNS, names)] :
      names \in { NameCells(k, 1, 0) : k \in KindSeqs(RowKinds, MaxRows) }
                  \cup {ExampleNames, NaTextNames, OtherLabelNames, BothLabelNames} }
SchemaInputs ==
  { [template |-> t, excel |-> Sheet(h, NameCells(k, 1, 0))] :
      t \in TemplatePool, h \in HeaderPool, k \in KindSeqs(AllKinds, MaxSchemaRows) }

\* Texts of the cells of the other columns.
V8 == <<"V","8">>
MTU == <<"M","T","U">>
MAN8 == <<"M","A","N","8">>
MAN_V12 == <<"M","A","N"," ","V","1","2">>
CaterpillarC32 == <<"C","a","t","e","r","p","i","l","l","a","r"," ","C","3","2">>
Steel == <<"S","t","e","e","l">>
Ok == <<"o","k">>
NotKnown == <<"n",".","a",".">>
Twelve == <<"1","2">>
Five == <<"5">>

\* A yacht row with cells of every kind: a name, numbers, a length in
\* metres and in feet and inches, texts.
PlainCells(name) ==
  ("Name" :> Str(name))
  @@ ("Base Price (2023)" :> Num(150))
  @@ ("Price / m2" :> Num(126))
  @@ ("LOA" :> Num(360))
  @@ ("Unnamed: 14" :> Num(1176))
  @@ ("Unnamed: 15" :> Num(60))
  @@ ("Material" :> Str(Steel))
  @@ ("Largest Engine" :> Str(MAN_V12))
  @@ ("Notes" :> Str(Ok))

\* The row with some of its cells changed; a cell changed to NA is blank.
Override(cells, change) ==
  LET all == change @@ cells
  IN  [ c \in { x \in DOMAIN all : ~isna(all[x]) } |-> all[c] ]

\* The changes: one text cell, one numeric cell, or the feet, the inches
\* and the metres of one dimension.
TextHeaders ==
  { "Largest Engine", "Generators (Recommended)", "Bow thr.", "Stabilizers",
    "Material", "Propulsion", "Notes" }
TextCells == { NA, Str(V8), Str(MTU), Str(MAN8), Str(CaterpillarC32), Num(24) }
NumericHeaders ==
  { "Base Price (2023)", "Price / m2", "Price/GT  (Euros/Gross Ton)",
    "Price/Ton  (Euros/Metric Ton)", "Consumption (Estimation)", "Area", "Crew cabins" }
NumericCells ==
  { NA, Str(NotAvailableName), Str(NotKnown), Str(EmptyText), Str(Twelve),
    Num(24), Num(30), Num(31), Num(42), Num(0 - 30) }
Dimensions ==
  { <<"Unnamed: 14", "Unnamed: 15", "LOA">>,
    <<"Unnamed: 11", "Unnamed: 12", "LWL">>,
    <<"Unnamed: 17", "Unnamed: 18", "Max beam">>,
    <<"Unnamed: 20", "Unnamed: 21", "Draft at full load">> }
FeetCells == { NA, Str(NotKnown), Str(Five), Num(60) }
InchCells == { NA, Str(NotKnown), Num(0), Num(72) }
MetricCells == { NA, Num(24) }

TextChanges == { (h :> v) : h \in TextHeaders, v \in TextCells }
NumericChanges == { (h :> v) : h \in NumericHeaders, v \in NumericCells }
ImperialChanges ==
  { (d[1] :> f) @@ (d[2] :> i) @@ (d[3] :> m) :
      d \in Dimensions, f \in FeetCells, i \in InchCells, m \in MetricCells }
CellChanges == TextChanges \cup NumericChanges \cup ImperialChanges

\* A sheet of three rows: a marker, the yacht row with the change, the
\* yacht row without it.
CellSheet(change) ==
  [columns |-> REQUIRED_EXCEL_COLUMNS,
   rows |-> << ("Name" :> Str(FullMarkerName)),
               Override(PlainCells(YachtNames[1]), change),
               PlainCells(YachtNames[2]) >>]

\* The calls with the sheets of the changed cells, the full template.
CellInputs ==
  { [template |-> Template(AssembledFields), excel |-> CellSheet(ch)] : ch \in CellChanges }

Inputs == RowInputs \cup SchemaInputs \cup CellInputs

\* A file just opened for writing, and a line of a file that no handle has
\* written yet.
Truncated == [exists |-> TRUE, header |-> << >>, rows |-> << >>]
Hole == << >>

\* What a call leaves behind, before any call has ended; a second
\* invocation and a run of the script, when there is none.
NoResult == [pc |-> "none", out |-> NoTable, file |-> Absent, error |-> NoError]
NoOther == [pc |-> "none", out |-> NoTable, written |-> 0]
NoUI ==
  [pc |-> "none", file |-> FALSE, sheet |-> FALSE, rebuild |-> FALSE, keys |-> {},
   messages |-> << >>, paths |-> FALSE, page |-> "none", reruns |-> 0, builds |-> 0,
   before |-> Absent, loaded |-> Absent]

\* ---------------------------------------------------------------- state
VARIABLES
  template_file,   \* the file at template_path
  excel_source,    \* the selected sheet of the workbook: header row and rows
  output_file,     \* the file at output_path
  output_before,   \* the file at output_path when build_master_csv was called
  pc,              \* where build_master_csv stands
  target_columns,  \* base_template.columns
  raw,             \* the DataFrame raw
  mask_sections,   \* the positions where mask_sections is True
  data,            \* the DataFrame data
  out,             \* the DataFrame out
  error,           \* the exception that left build_master_csv
  excel_pos,       \* the position of excel_source when it is a file object
  written,         \* the lines to_csv has written: the offset of its handle
  calls,           \* the calls of build_master_csv begun so far
  first,           \* what the call before this one left
  other,           \* a second invocation writing to the same output_path
  ui,              \* the run of the Streamlit script
  logging,         \* the loggers of the logging module and what they have emitted
  filters          \* the sidebar filters: st.session_state, the dataset, the result

\* ------------------------------------------------------------ the loggers
\* The levels of the logging module, lowest first; NOTSET is the level of a
\* logger nobody has set, which then takes the root's level, WARNING.
Levels == << "NOTSET", "DEBUG", "INFO", "WARNING" >>
LevelNo(level) == CHOOSE i \in DOMAIN Levels : Levels[i] = level
getEffectiveLevel(logger) == IF logger.level = "NOTSET" THEN "WARNING" ELSE logger.level

\* The names, directories and levels setup_logger is called with.  None is
\* the default log_dir; ForbiddenDir cannot be created or written.
LoggerNames == { "yacht_etl", "ingest" }
None == "None"
ForbiddenDir == "forbidden"
LogDirs == { None, "var_log", ForbiddenDir }
SetupLevels == { "INFO", "WARNING" }
MaxSetups == 3
MaxRecords == 2

\* logging.getLogger(name) for a name not asked for before.
NewLogger == [ level |-> "NOTSET", handlers |-> << >>, propagate |-> TRUE, configured |-> FALSE ]

\* The state of the logging module before any call: per name the logger,
\* the number of its first call and of its first call that returned; the
\* calls and the records so far; what the handlers have put out.
NoLogging ==
  [ loggerDict |-> [ n \in LoggerNames |-> NewLogger ],
    began      |-> [ n \in LoggerNames |-> 0 ],
    returned   |-> [ n \in LoggerNames |-> 0 ],
    setups     |-> 0,
    records    |-> 0,
    output     |-> << >>,
    result     |-> "none" ]

\* ------------------------------------------------------ the sidebar filters
\* A float: n twelfths times M_TO_FT to the power e, and the last place by
\* which the rounding of a product and a quotient has moved it.
Float(n) == [ n |-> n, e |-> 0, ulp |-> 0 ]
Whole(n) == Float(n * InchesPerFoot)

\* The keys of the four widgets in st.session_state (the price key without
\* its currency sign), and their values: no value (None), the option of a
\* selectbox, the pair of a range slider.
disp_key == "Displacement type"
mat_key == "Material"
price_key == "Base price"
loa_key == "Length Overall (LOA)"
FilterKeys == { disp_key, mat_key, price_key, loa_key }
Unset == [ t |-> "none" ]
Choice(s) == [ t |-> "str", s |-> s ]
Pair(lo, hi) == [ t |-> "tuple", lo |-> lo, hi |-> hi ]
\* The range (None, None) of a slider that is not shown.
NoRange == [ t |-> "nones" ]
All == << "A", "l", "l" >>

\* What a run of render_filters leaves, before the first run.
NoRun ==
  [ session_state |-> [ k \in FilterKeys |-> Unset ],
    disp_opts     |-> {},
    mat_opts      |-> {},
    price_bounds  |-> NoRange,
    loa_bounds    |-> NoRange,
    loa_data      |-> NoRange,
    price_range   |-> NoRange,
    loa_range_m   |-> NoRange,
    filtered      |-> NoTable,
    caller_df     |-> NoTable ]

\* The sidebar before the first rerun.
NoFilters ==
  [ pc |-> "none", df |-> NoTable, length_unit |-> "m", reset_filters |-> FALSE,
    event |-> "none", reruns |-> 0, run |-> NoRun,
    before |-> [ length_unit |-> "m", df |-> NoTable, run |-> NoRun ] ]

vars == << template_file, excel_source, output_file, output_before, pc, target_columns, raw,
           mask_sections, data, out, error, excel_pos, written, calls, first, other, ui,
           logging, filters >>

Init ==
  /\ \E in \in Inputs : template_file = in.template /\ excel_source = in.excel
  /\ output_file \in {Absent, OldFile}
  /\ output_before = output_file
  /\ pc = "template"
  /\ target_columns = << >>
  /\ raw = NoTable
  /\ mask_sections = {}
  /\ data = NoTable
  /\ out = NoTable
  /\ error = NoError
  /\ excel_pos = "none"
  /\ written = 0
  /\ calls = 1
  /\ first = NoResult
  /\ other = NoOther
  /\ ui = NoUI
  /\ logging = NoLogging
  /\ filters = NoFilters

\* -------------------------------------------------- reading the workbook
\* Cell texts pd.read_excel takes for missing (its default na_values).
DefaultNaValues ==
  { EmptyText, NotAvailableName, nan,
    <<"N","A">>, <<"N","a","N">>, <<"N","U","L","L">>, <<"n","u","l","l">>,
    <<"n","/","a">>, <<"#","N","/","A">>, <<"N","o","n","e">> }

\* One cell as pd.read_excel returns it.
ReadExcelCell(v) == IF v.t = "str" /\ v.s \in DefaultNaValues THEN NA ELSE v

\* pd.read_excel(excel_source, sheet_name=excel_sheet): a RangeIndex, the
\* header row as the columns, blank and missing-text cells as NaN.
ReadExcel(src) ==
  [columns |-> src.columns,
   rows |-> [ i \in DOMAIN src.rows |->
     [idx |-> i,
      cells |-> [ c \in { x \in DOMAIN src.rows[i] : ~isna(ReadExcelCell(src.rows[i][x])) }
                    |-> ReadExcelCell(src.rows[i][c]) ]] ]]

\* excel_source.seek(0): the position of the file object afterwards.
seek(offset) == IF offset = 0 THEN "start" ELSE "end"

\* What a reader gets from the workbook: all of it from the start, nothing
\* from the end.
ReadFrom(src, pos) ==
  IF pos = "start" THEN src ELSE [columns |-> << >>, rows |-> << >>]

\* ---------------------------------------------------- header validation
\* Mutant: only the first missing column is reported.
FirstMissingColumn(columns) ==
  LET present == Range(columns)
      lacking == { i \in DOMAIN REQUIRED_EXCEL_COLUMNS :
                     REQUIRED_EXCEL_COLUMNS[i] \notin present }
  IN  IF lacking = {} THEN << >>
      ELSE << REQUIRED_EXCEL_COLUMNS[CHOOSE i \in lacking : \A j \in lacking : i <= j] >>

\* [c for c in REQUIRED_EXCEL_COLUMNS if c not in raw.columns]
MissingColumns(columns) ==
  LET present == Range(columns) IN
  SelectIdx(REQUIRED_EXCEL_COLUMNS,
            { i \in DOMAIN REQUIRED_EXCEL_COLUMNS :
                REQUIRED_EXCEL_COLUMNS[i] \notin present }, 1)

RenameColumn(h) ==
  IF In(h, REQUIRED_EXCEL_COLUMNS) THEN EXCEL_COLUMN_MAP(h) ELSE h

\* raw.rename(columns=EXCEL_COLUMN_MAP)
Rename(df) ==
  [columns |-> [ i \in DOMAIN df.columns |-> RenameColumn(df.columns[i]) ],
   rows |-> [ i \in DOMAIN df.rows |->
     [idx |-> df.rows[i].idx,
      cells |-> [ c \in { RenameColumn(h) : h \in DOMAIN df.rows[i].cells } |->
                    df.rows[i].cells[CHOOSE h \in DOMAIN df.rows[i].cells :
                                       RenameColumn(h) = c] ]] ]]

\* ------------------------------------------------ section classification
\* astype(str) on a cell of the name column, which holds text or NaN.
astype_str(v) == CASE v.t = "na" -> nan [] v.t = "str" -> v.s

\* name_str = raw["name"].astype(str)
name_str(df) == [ i \in DOMAIN df.rows |-> astype_str(Cell(df.rows[i], "name")) ]

\* Mutant: the pattern is the abbreviation "DISP".
MaskSectionsDisp(names) ==
  { i \in DOMAIN names : Contains(Upper(names[i]), <<"D","I","S","P">>) }

\* name_str.str.contains("DISPLACEMENT", case=False, na=False)
MaskSections(names) == { i \in DOMAIN names : Contains(Upper(names[i]), DISPLACEMENT) }

RECURSIVE FfillFrom(_, _, _)
\* The values from position i on, each missing one replaced by the last
\* value seen above it (last: NA when none was seen).
FfillFrom(vals, i, last) ==
  IF i > Len(vals) THEN << >>
  ELSE LET v == IF isna(vals[i]) THEN last ELSE vals[i] IN
       << v >> \o FfillFrom(vals, i + 1, v)

\* Mutant: the fill runs backward (bfill), from the marker below.
bfill(vals) == Reverse(FfillFrom(Reverse(vals), 1, NA))

\* Series.ffill()
ffill(vals) == FfillFrom(vals, 1, NA)

\* Mutant: "FULL" is tested before "SEMI".
normalize_full_first(x) ==
  IF isna(x) THEN NA
  ELSE IF Contains(Upper(x.s), FULL) THEN Str(FULL_DISPLACEMENT)
  ELSE IF Contains(Upper(x.s), SEMI) THEN Str(SEMI_DISPLACEMENT)
  ELSE x

\* Lines 72 to 82.
normalize_displacement_type(x) ==
  IF isna(x) THEN NA
  ELSE IF Contains(Upper(x.s), SEMI) THEN Str(SEMI_DISPLACEMENT)
  ELSE IF Contains(Upper(x.s), FULL) THEN Str(FULL_DISPLACEMENT)
  ELSE x

\* df[c] = vals, the new column appended when the table has none of the name.
SetColumn(df, c, vals) ==
  [columns |-> IF In(c, df.columns) THEN df.columns ELSE Append(df.columns, c),
   rows |-> [ i \in DOMAIN df.rows |-> SetCell(df.rows[i], c, vals[i]) ]]

\* Lines 63 to 84: the displacement_type column of raw.
DisplacementTypes(names, mask) ==
  LET labels == [ i \in DOMAIN names |-> IF i \in mask THEN Str(Strip(names[i])) ELSE NA ]
      filled == ffill(labels)
  IN  [ i \in DOMAIN names |-> normalize_displacement_type(filled[i]) ]

\* ------------------------------------------------------------ filtering
\* raw[~mask_sections]
DropSections(df, mask) == FilterRows(df, { i \in DOMAIN df.rows : df.rows[i].idx \notin mask })

\* Mutant: the comparison with "Units" ignores case.
DropUnitsAnyCase(df) ==
  FilterRows(df, { i \in DOMAIN df.rows :
    ~(Cell(df.rows[i], "name").t = "str"
      /\ Upper(Cell(df.rows[i], "name").s) = Upper(Units)) })

\* data[data["name"] != "Units"]
DropUnits(df) ==
  FilterRows(df, { i \in DOMAIN df.rows : Cell(df.rows[i], "name") # Str(Units) })

\* Mutant: the rows without a name are kept.
KeepMissingName(df) == df

\* data[~data["name"].isna()]
DropMissingName(df) ==
  FilterRows(df, { i \in DOMAIN df.rows : ~isna(Cell(df.rows[i], "name")) })

\* ------------------------------------------------------- field assembly
Digits == <<"0","1","2","3","4","5","6","7","8","9">>
IsDigit(c) == \E d \in DOMAIN Digits : Digits[d] = c
DigitValue(c) == (CHOOSE d \in DOMAIN Digits : Digits[d] = c) - 1

RECURSIVE IntOf(_)
IntOf(s) == IF s = << >> THEN 0
            ELSE 10 * IntOf(SubSeq(s, 1, Len(s) - 1)) + DigitValue(s[Len(s)])

\* Mutant: errors="ignore", text that is no number is returned as it is.
to_numeric_ignore(v) ==
  CASE v.t = "num" -> v
    [] v.t = "na"  -> NA
    [] v.t = "str" ->
         LET s == Strip(v.s) IN
         IF s # << >> /\ \A i \in DOMAIN s : IsDigit(s[i])
         THEN Num(InchesPerFoot * IntOf(s)) ELSE v

\* pd.to_numeric(x, errors="coerce"): a number stays, text that is an
\* integer literal (blanks around it allowed) parses, anything else is NaN.
to_numeric(v) ==
  CASE v.t = "num" -> v
    [] v.t = "na"  -> NA
    [] v.t = "str" ->
         LET s == Strip(v.s) IN
         IF s # << >> /\ \A i \in DOMAIN s : IsDigit(s[i])
         THEN Num(InchesPerFoot * IntOf(s)) ELSE NA

\* Mutant: the fraction is cut off.
floor(v) ==
  IF isna(v) THEN NA ELSE Num(InchesPerFoot * (v.n \div InchesPerFoot))

\* round(x): to the nearest integer, a tie to the even one; NaN stays NaN.
round(v) ==
  IF isna(v) THEN NA
  ELSE LET q == v.n \div InchesPerFoot
           r == v.n % InchesPerFoot
       IN  IF 2 * r < InchesPerFoot THEN Num(InchesPerFoot * q)
           ELSE IF 2 * r > InchesPerFoot THEN Num(InchesPerFoot * (q + 1))
           ELSE Num(InchesPerFoot * (IF q % 2 = 0 THEN q ELSE q + 1))

\* Mutant: inches that are missing count as none.
ft_in_to_ft_partial(ft, inch) ==
  LET f == to_numeric(ft)
      n == to_numeric(inch)
  IN  IF isna(f) THEN NA
      ELSE IF isna(n) THEN f ELSE Num(f.n + n.n \div InchesPerFoot)

\* ft_in_to_ft(ft, inch) on one row; inches are whole numbers.
ft_in_to_ft(ft, inch) ==
  LET f == to_numeric(ft)
      n == to_numeric(inch)
  IN  IF isna(f) \/ isna(n) THEN NA ELSE Num(f.n + n.n \div InchesPerFoot)

\* The value of one key of the dict of the final DataFrame, for one row.
AssembleField(row, a) ==
  CASE a[2] = "copy"    -> Cell(row, a[3])
    [] a[2] = "numeric" -> to_numeric(Cell(row, a[3]))
    [] a[2] = "round"   -> round(to_numeric(Cell(row, a[3])))
    [] a[2] = "ft_in"   -> ft_in_to_ft(Cell(row, a[3]), Cell(row, a[4]))

AssemblyOf(f) == ASSEMBLY[CHOOSE i \in DOMAIN ASSEMBLY : ASSEMBLY[i][1] = f]

\* df has more than one column of the name c.
Ambiguous(df, c) ==
  \E i, j \in DOMAIN df.columns : i # j /\ df.columns[i] = c /\ df.columns[j] = c

\* The source columns, in the order of the dict, of the entries of the given
\* kinds that df has more than once.
AmbiguousSources(df, kinds) ==
  LET twice == { c \in Range(df.columns) : Ambiguous(df, c) } IN
  IF twice = {} THEN << >>
  ELSE LET hit == { i \in DOMAIN ASSEMBLY :
                      ASSEMBLY[i][2] \in kinds /\ (ASSEMBLY[i][3] \in twice \/ ASSEMBLY[i][4] \in twice) }
       IN  [ k \in DOMAIN SelectIdx(ASSEMBLY, hit, 1) |->
               LET a == SelectIdx(ASSEMBLY, hit, 1)[k] IN
               IF a[3] \in twice THEN a[3] ELSE a[4] ]

\* pd.DataFrame({...}) of lines 101 to 161.
Assemble(df) ==
  [columns |-> AssembledFields,
   rows |-> [ i \in DOMAIN df.rows |->
     [idx |-> df.rows[i].idx,
      cells |-> [ f \in { ASSEMBLY[a][1] : a \in { x \in DOMAIN ASSEMBLY :
                            ~isna(AssembleField(df.rows[i], ASSEMBLY[x])) } }
                    |-> AssembleField(df.rows[i], AssemblyOf(f)) ]] ]]

\* Mutant: a label without a column is tolerated (as reindex does).
NotInIndexTolerant(df, cols) == << >>

\* The labels of cols that df has no column for, in the order of cols.
NotInIndex(df, cols) ==
  LET present == Range(df.columns) IN
  SelectIdx(cols, { i \in DOMAIN cols : cols[i] \notin present }, 1)

\* Mutant: the columns are selected but left in the order of assembly.
SelectColumnsUnordered(df, cols) ==
  [columns |-> SelectIdx(df.columns, { i \in DOMAIN df.columns : In(df.columns[i], cols) }, 1),
   rows |-> [ i \in DOMAIN df.rows |->
     [idx |-> df.rows[i].idx,
      cells |-> [ c \in { x \in DOMAIN df.rows[i].cells : In(x, cols) }
                    |-> df.rows[i].cells[c] ]] ]]

\* out[target_columns], for columns that df has.
SelectColumns(df, cols) ==
  [columns |-> cols,
   rows |-> [ i \in DOMAIN df.rows |->
     [idx |-> df.rows[i].idx,
      cells |-> [ c \in { x \in DOMAIN df.rows[i].cells : In(x, cols) }
                    |-> df.rows[i].cells[c] ]] ]]

\* The columns cleaned at lines 167 to 178, in the order of the statements.
CleanedColumns == <<"engine", "generators", "bow_thr", "stabilizers">>
MinTextLen == 4

\* Mutant: a text of four characters is nulled too.
ShortTextToNoneInclusive(x) == IF x.t = "str" /\ Len(x.s) <= MinTextLen THEN NA ELSE x

\* lambda x: None if isinstance(x, str) and len(x) < 4 else x
ShortTextToNone(x) == IF x.t = "str" /\ Len(x.s) < MinTextLen THEN NA ELSE x

RECURSIVE CleanColumns(_, _)
\* out[c] = out[c].apply(...) for the columns of CleanedColumns from the i-th
\* on, as far as the first one that df has no column for.
CleanColumns(df, i) ==
  IF i > Len(CleanedColumns) \/ ~In(CleanedColumns[i], df.columns) THEN df
  ELSE CleanColumns(
         [ df EXCEPT !.rows = [ r \in DOMAIN df.rows |->
             SetCell(df.rows[r], CleanedColumns[i],
                     ShortTextToNone(Cell(df.rows[r], CleanedColumns[i]))) ] ],
         i + 1)

\* ------------------------------------------------------------- the file
\* One cell as to_csv writes it: a missing value as the empty field.
CsvCell(v) == IF isna(v) THEN Str(EmptyText) ELSE v

\* One line of the file for a row of df.
CsvRow(df, row) == [ i \in DOMAIN df.columns |-> CsvCell(Cell(row, df.columns[i])) ]

\* The file out.to_csv(output_path, index=False) leaves when it completes.
CsvFile(df) ==
  [exists |-> TRUE, header |-> df.columns,
   rows |-> [ i \in DOMAIN df.rows |-> CsvRow(df, df.rows[i]) ]]

\* The lines to_csv writes for df, the header being line 0.
LinesOf(df) == 1 + Len(df.rows)
LineOf(df, k) == IF k = 0 THEN df.columns ELSE CsvRow(df, df.rows[k])

\* A write of one line at offset k of a handle: the line takes place k of
\* the file, whatever was there; the places skipped stay unwritten.
WriteAt(f, k, line) ==
  IF k = 0 THEN [ f EXCEPT !.header = line ]
  ELSE LET n == Len(f.rows)
           m == IF k > n THEN k ELSE n
       IN  [ f EXCEPT !.rows =
               [ j \in 1..m |-> IF j = k THEN line ELSE IF j <= n THEN f.rows[j] ELSE Hole ] ]

\* -------------------------------------------------------------- actions
\* raise: the exception leaves build_master_csv.
Raise(type, names, available) ==
  /\ pc' = "raised"
  /\ error' = [type |-> type, names |-> names, available |-> available]

\* Mutant: a template that cannot be read counts as one without columns.
LoadTemplateLenient ==
  /\ pc = "template"
  /\ target_columns' = template_file.header
  /\ pc' = "excel"
  /\ UNCHANGED << template_file, excel_source, output_before, output_file, raw, mask_sections,
                  data, out, error >>
  /\ UNCHANGED << written, excel_pos, calls, first, other, ui >>
  /\ UNCHANGED << logging, filters >>

\* Lines 19 to 21: base_template = pd.read_csv(template_path).
LoadTemplate ==
  /\ pc = "template"
  /\ IF template_file.readable
     THEN /\ target_columns' = template_file.header
          /\ pc' = "excel"
          /\ UNCHANGED error
     ELSE /\ Raise("TemplateError", << >>, << >>)
          /\ UNCHANGED target_columns
  /\ UNCHANGED << template_file, excel_source, output_before, output_file, raw, mask_sections, data, out >>
  /\ UNCHANGED << written, excel_pos, calls, first, other, ui >>
  /\ UNCHANGED << logging, filters >>

\* Mutant: a file object is read from where it stands.
LoadExcelNoSeek ==
  /\ pc = "excel"
  /\ raw' = ReadExcel(ReadFrom(excel_source, IF excel_pos = "none" THEN "start" ELSE excel_pos))
  /\ excel_pos' = IF excel_pos = "none" THEN "none" ELSE "end"
  /\ pc' = "validate"
  /\ UNCHANGED << template_file, excel_source, output_before, output_file, target_columns,
                  mask_sections, data, out, error >>
  /\ UNCHANGED << written, calls, first, other, ui >>
  /\ UNCHANGED << logging, filters >>

\* Lines 23 to 38: a path is opened and read; a file object is rewound with
\* seek(0) and read to its end.  raw = pd.read_excel(..., sheet_name=excel_sheet).
LoadExcel ==
  /\ pc = "excel"
  /\ raw' = ReadExcel(ReadFrom(excel_source, IF excel_pos = "none" THEN "start" ELSE seek(0)))
  /\ excel_pos' = IF excel_pos = "none" THEN "none" ELSE "end"
  /\ pc' = "validate"
  /\ UNCHANGED << template_file, excel_source, output_before, output_file, target_columns,
                  mask_sections, data, out, error >>
  /\ UNCHANGED << written, calls, first, other, ui >>
  /\ UNCHANGED << logging, filters >>

\* Mutant: the missing columns are recorded but the call goes on.
ValidateColumnsNoAbort ==
  /\ pc = "validate"
  /\ LET missing == MissingColumns(raw.columns) IN
     error' = IF missing # << >>
              THEN [type |-> "ValueError", names |-> missing, available |-> raw.columns]
              ELSE error
  /\ raw' = Rename(raw)
  /\ pc' = "section"
  /\ UNCHANGED << template_file, excel_source, output_before, output_file, target_columns,
                  mask_sections, data, out >>
  /\ UNCHANGED << written, excel_pos, calls, first, other, ui >>
  /\ UNCHANGED << logging, filters >>

\* Lines 41 to 50: the required columns, then the rename to internal names.
ValidateColumns ==
  /\ pc = "validate"
  /\ LET missing == MissingColumns(raw.columns) IN
     IF missing # << >>
     THEN /\ Raise("ValueError", missing, raw.columns)
          /\ UNCHANGED raw
     ELSE /\ raw' = Rename(raw)
          /\ pc' = "section"
          /\ UNCHANGED error
  /\ UNCHANGED << template_file, excel_source, output_before, output_file, target_columns,
                  mask_sections, data, out >>
  /\ UNCHANGED << written, excel_pos, calls, first, other, ui >>
  /\ UNCHANGED << logging, filters >>

\* Lines 54 to 84: the section rows and the displacement_type column.  With
\* two columns called name, raw["name"] is a DataFrame, which has no .str.
AddDisplacementType ==
  /\ pc = "section"
  /\ IF Ambiguous(raw, "name")
     THEN /\ Raise("AttributeError", <<"name">>, << >>)
          /\ UNCHANGED << raw, mask_sections >>
     ELSE /\ LET names == name_str(raw)
                 mask == MaskSections(names)
             IN  /\ mask_sections' = mask
                 /\ raw' = SetColumn(raw, "displacement_type", DisplacementTypes(names, mask))
          /\ pc' = "clean"
          /\ UNCHANGED error
  /\ UNCHANGED << template_file, excel_source, output_before, output_file, target_columns,
                  data, out >>
  /\ UNCHANGED << written, excel_pos, calls, first, other, ui >>
  /\ UNCHANGED << logging, filters >>

\* Mutant: a dataset without rows is refused.
CleanDatasetRejectEmpty ==
  /\ pc = "clean"
  /\ data' = DropMissingName(DropUnits(DropSections(raw, mask_sections)))
  /\ IF data'.rows = << >>
     THEN Raise("ValueError", << >>, << >>)
     ELSE pc' = "build" /\ UNCHANGED error
  /\ UNCHANGED << template_file, excel_source, output_before, output_file, target_columns,
                  raw, mask_sections, out >>
  /\ UNCHANGED << written, excel_pos, calls, first, other, ui >>
  /\ UNCHANGED << logging, filters >>

\* Lines 88 to 97: the section rows, the "Units" row and the rows without a
\* name are dropped.
CleanDataset ==
  /\ pc = "clean"
  /\ data' = DropMissingName(DropUnits(DropSections(raw, mask_sections)))
  /\ pc' = "build"
  /\ UNCHANGED << template_file, excel_source, output_before, output_file, target_columns,
                  raw, mask_sections, out, error >>
  /\ UNCHANGED << written, excel_pos, calls, first, other, ui >>
  /\ UNCHANGED << logging, filters >>

\* Lines 99 to 178: the final DataFrame, the template's columns selected
\* from it, the short machinery texts nulled.  A label that is no column of
\* out raises KeyError where it is first used.  A source column that raw
\* has twice is a DataFrame: pd.to_numeric refuses it with TypeError while
\* the dict is built, the DataFrame constructor with ValueError after that.
BuildFinal ==
  /\ pc = "build"
  /\ LET assembled == Assemble(data)
         not_found == NotInIndex(assembled, target_columns)
         selected  == SelectColumns(assembled, target_columns)
         uncleaned == NotInIndex(selected, CleanedColumns)
         unusable  == AmbiguousSources(data, {"numeric", "round", "ft_in"})
         unwrapped == AmbiguousSources(data, {"copy"})
     IN  IF unusable # << >>
         THEN /\ Raise("TypeError", << unusable[1] >>, << >>)
              /\ UNCHANGED out
         ELSE IF unwrapped # << >>
         THEN /\ Raise("ValueError", << unwrapped[1] >>, << >>)
              /\ UNCHANGED out
         ELSE IF not_found # << >>
         THEN /\ out' = assembled
              /\ Raise("KeyError", not_found, << >>)
         ELSE IF uncleaned # << >>
         THEN /\ out' = CleanColumns(selected, 1)
              /\ Raise("KeyError", << uncleaned[1] >>, << >>)
         ELSE /\ out' = CleanColumns(selected, 1)
              /\ pc' = "save"
              /\ UNCHANGED error
  /\ UNCHANGED << template_file, excel_source, output_before, output_file, target_columns,
                  raw, mask_sections, data >>
  /\ UNCHANGED << written, excel_pos, calls, first, other, ui >>
  /\ UNCHANGED << logging, filters >>

\* Mutant: the file is opened only when no other invocation is writing it.
OpenOutputLocked ==
  /\ pc = "save"
  /\ other.pc # "writing"
  /\ output_file' = Truncated
  /\ written' = 0
  /\ pc' = "writing"
  /\ UNCHANGED << template_file, excel_source, output_before, target_columns, raw,
                  mask_sections, data, out, error >>
  /\ UNCHANGED << excel_pos, calls, first, other, ui >>
  /\ UNCHANGED << logging, filters >>

\* Line 183, out.to_csv(output_path, index=False), first step: the file is
\* opened for writing, which creates it or cuts it to nothing.
OpenOutput ==
  /\ pc = "save"
  /\ output_file' = Truncated
  /\ written' = 0
  /\ pc' = "writing"
  /\ UNCHANGED << template_file, excel_source, output_before, target_columns, raw,
                  mask_sections, data, out, error >>
  /\ UNCHANGED << excel_pos, calls, first, other, ui >>
  /\ UNCHANGED << logging, filters >>

\* Line 183, next step: the next line goes to the file at the offset of the
\* handle, the header first.
WriteLine ==
  /\ pc = "writing"
  /\ written < LinesOf(out)
  /\ output_file' = WriteAt(output_file, written, LineOf(out, written))
  /\ written' = written + 1
  /\ UNCHANGED << template_file, excel_source, output_before, pc, target_columns, raw,
                  mask_sections, data, out, error >>
  /\ UNCHANGED << excel_pos, calls, first, other, ui >>
  /\ UNCHANGED << logging, filters >>

\* Line 183, last step, and lines 185 to 187: the file is closed and out returned.
CloseOutput ==
  /\ pc = "writing"
  /\ written = LinesOf(out)
  /\ pc' = "done"
  /\ UNCHANGED << template_file, excel_source, output_before, output_file, target_columns, raw,
                  mask_sections, data, out, error >>
  /\ UNCHANGED << written, excel_pos, calls, first, other, ui >>
  /\ UNCHANGED << logging, filters >>

\* Line 183 fails part way (the disk is full, the process is killed): the
\* file keeps what had reached it.
WriteFails ==
  /\ pc = "writing"
  /\ Raise("OSError", << >>, << >>)
  /\ UNCHANGED << template_file, excel_source, output_before, output_file, target_columns, raw,
                  mask_sections, data, out >>
  /\ UNCHANGED << written, excel_pos, calls, first, other, ui >>
  /\ UNCHANGED << logging, filters >>

Next ==
  \/ LoadTemplate
  \/ LoadExcel
  \/ ValidateColumns
  \/ AddDisplacementType
  \/ CleanDataset
  \/ BuildFinal
  \/ OpenOutput
  \/ WriteLine
  \/ CloseOutput
  \/ WriteFails

Spec == Init /\ [][Next]_vars

\* ------------------------------------------------- two invocations at once
\* The table that build_master_csv builds from a valid template and sheet:
\* lines 23 to 178 as one function.
TableOf(template, src) ==
  LET renamed == Rename(ReadExcel(src))
      names   == name_str(renamed)
      mask    == MaskSections(names)
      typed   == SetColumn(renamed, "displacement_type", DisplacementTypes(names, mask))
      kept    == DropMissingName(DropUnits(DropSections(typed, mask)))
  IN  CleanColumns(SelectColumns(Assemble(kept), template.header), 1)

\* The Name cells of the sheets of the two invocations.
ConcurrentNames ==
  { << >>,
    << Str(YachtNames[1]) >>,
    << Str(YachtNames[2]), Str(YachtNames[3]) >>,
    << Str(FullMarkerName), Str(YachtNames[1]), Str(YachtNames[2]), Str(YachtNames[3]) >> }

\* Two invocations with the same template and output_path: this one at its
\* start, the other one with its table built and about to write it.
InitConcurrent ==
  /\ template_file = Template(ShortTemplate)
  /\ \E names \in ConcurrentNames : excel_source = Sheet(REQUIRED_EXCEL_COLUMNS, names)
  /\ output_file \in {Absent, OldFile}
  /\ output_before = output_file
  /\ pc = "template"
  /\ target_columns = << >>
  /\ raw = NoTable
  /\ mask_sections = {}
  /\ data = NoTable
  /\ out = NoTable
  /\ error = NoError
  /\ excel_pos = "none"
  /\ written = 0
  /\ calls = 1
  /\ first = NoResult
  /\ \E names \in ConcurrentNames :
       other = [pc |-> "save", written |-> 0,
                out |-> TableOf(template_file, Sheet(REQUIRED_EXCEL_COLUMNS, names))]
  /\ ui = NoUI
  /\ logging = NoLogging
  /\ filters = NoFilters

\* Line 183 in the other invocation: its own handle on the same file.
OtherOpenOutput ==
  /\ other.pc = "save"
  /\ output_file' = Truncated
  /\ other' = [ other EXCEPT !.pc = "writing", !.written = 0 ]
  /\ UNCHANGED << template_file, excel_source, output_before, pc, target_columns, raw,
                  mask_sections, data, out, error, excel_pos, written, calls, first, ui >>
  /\ UNCHANGED << logging, filters >>

\* Line 183, next step, in the other invocation: its next line at its offset.
OtherWriteLine ==
  /\ other.pc = "writing"
  /\ other.written < LinesOf(other.out)
  /\ output_file' = WriteAt(output_file, other.written, LineOf(other.out, other.written))
  /\ other' = [ other EXCEPT !.written = @ + 1 ]
  /\ UNCHANGED << template_file, excel_source, output_before, pc, target_columns, raw,
                  mask_sections, data, out, error, excel_pos, written, calls, first, ui >>
  /\ UNCHANGED << logging, filters >>

\* Line 183, last step, and lines 185 to 187 in the other invocation.
OtherCloseOutput ==
  /\ other.pc = "writing"
  /\ other.written = LinesOf(other.out)
  /\ other' = [ other EXCEPT !.pc = "done" ]
  /\ UNCHANGED << template_file, excel_source, output_file, output_before, pc, target_columns,
                  raw, mask_sections, data, out, error, excel_pos, written, calls, first, ui >>
  /\ UNCHANGED << logging, filters >>

NextConcurrent ==
  \/ Next
  \/ OtherOpenOutput
  \/ OtherWriteLine
  \/ OtherCloseOutput

SpecConcurrent == InitConcurrent /\ [][NextConcurrent]_vars

\* ------------------------------------------------- the headers of the sheet
\* Header rows with the required headers in another order, with a column
\* that is not mapped, with a column whose header is already an internal
\* name, and without a required header.
MappingHeaders ==
  { REQUIRED_EXCEL_COLUMNS,
    Reverse(REQUIRED_EXCEL_COLUMNS),
    Append(REQUIRED_EXCEL_COLUMNS, "Comments"),
    Append(REQUIRED_EXCEL_COLUMNS, "displacement_type"),
    Append(REQUIRED_EXCEL_COLUMNS, "loa_m"),
    << "name" >> \o REQUIRED_EXCEL_COLUMNS,
    Append(REQUIRED_EXCEL_COLUMNS, "material"),
    Without(REQUIRED_EXCEL_COLUMNS, {"Notes"}) }

\* The calls with those header rows, the full template and the short sheets,
\* and a sheet with a row of cells.
MappingInputs ==
  { [template |-> Template(AssembledFields), excel |-> Sheet(h, NameCells(k, 1, 0))] :
      h \in MappingHeaders, k \in KindSeqs(AllKinds, MaxSchemaRows) }
  \cup { [template |-> Template(AssembledFields),
          excel |-> [ CellSheet("Price / m2" :> Num(30)) EXCEPT !.columns = h ]] :
           h \in MappingHeaders \ {Without(REQUIRED_EXCEL_COLUMNS, {"Notes"})} }

InitMapping ==
  /\ \E in \in MappingInputs : template_file = in.template /\ excel_source = in.excel
  /\ output_file \in {Absent, OldFile}
  /\ output_before = output_file
  /\ pc = "template"
  /\ target_columns = << >>
  /\ raw = NoTable
  /\ mask_sections = {}
  /\ data = NoTable
  /\ out = NoTable
  /\ error = NoError
  /\ excel_pos = "none"
  /\ written = 0
  /\ calls = 1
  /\ first = NoResult
  /\ other = NoOther
  /\ ui = NoUI
  /\ logging = NoLogging
  /\ filters = NoFilters

SpecMapping == InitMapping /\ [][Next]_vars

\* --------------------------------------------------------- setup_logger
\* Logger.info(msg): when INFO is enabled for the logger, every handler
\* whose level lets INFO through puts the record out once.  A logger
\* without handlers hands the record to the root, which has none: the
\* handler of last resort is for WARNING and above.
info(logger, record) ==
  IF LevelNo("INFO") < LevelNo(getEffectiveLevel(logger)) THEN << >>
  ELSE LET allowed == { i \in DOMAIN logger.handlers :
                          LevelNo("INFO") >= LevelNo(logger.handlers[i].level) }
       IN  [ k \in DOMAIN SelectIdx(logger.handlers, allowed, 1) |->
               [ record |-> record,
                 kind   |-> SelectIdx(logger.handlers, allowed, 1)[k].kind,
                 path   |-> SelectIdx(logger.handlers, allowed, 1)[k].path ] ]

\* Lines 22 to 28: the file the rotating handler writes.
log_path(name, log_dir) == << IF log_dir = None THEN "logs" ELSE log_dir, name >>

\* Lines 36 to 52: the two handlers of a call.
NewHandlers(name, log_dir, level, call) ==
  << [ kind |-> "RotatingFileHandler", level |-> level, path |-> log_path(name, log_dir), call |-> call ],
     [ kind |-> "StreamHandler", level |-> level, path |-> << >>, call |-> call ] >>

InitLogger ==
  /\ template_file = Template(AssembledFields)
  /\ excel_source = Sheet(REQUIRED_EXCEL_COLUMNS, << >>)
  /\ output_file = Absent
  /\ output_before = output_file
  /\ pc = "idle"
  /\ target_columns = << >>
  /\ raw = NoTable
  /\ mask_sections = {}
  /\ data = NoTable
  /\ out = NoTable
  /\ error = NoError
  /\ excel_pos = "none"
  /\ written = 0
  /\ calls = 0
  /\ first = NoResult
  /\ other = NoOther
  /\ ui = NoUI
  /\ logging = NoLogging
  /\ filters = NoFilters

\* Mutant: the guard of lines 18 and 19 is gone.
setup_logger_unguarded(name, log_dir, level) ==
  /\ logging.setups < MaxSetups
  /\ LET call    == logging.setups + 1
         logger  == [ logging.loggerDict[name] EXCEPT !.level = level ]
         began   == IF logging.began[name] = 0 THEN call ELSE logging.began[name]
     IN  IF log_dir = ForbiddenDir
         THEN logging' = [ logging EXCEPT !.loggerDict[name] = logger, !.setups = call,
                                          !.began[name] = began, !.result = "raised" ]
         ELSE LET ready == [ logger EXCEPT !.handlers = @ \o NewHandlers(name, log_dir, level, call),
                                           !.propagate = FALSE, !.configured = TRUE ]
              IN  logging' = [ logging EXCEPT !.loggerDict[name] = ready, !.setups = call,
                                              !.began[name] = began,
                                              !.returned[name] = IF @ = 0 THEN call ELSE @,
                                              !.records = @ + 1,
                                              !.output = @ \o info(ready, logging.records + 1),
                                              !.result = "returned" ]
  /\ UNCHANGED << template_file, excel_source, output_file, output_before, pc, target_columns,
                  raw, mask_sections, data, out, error, excel_pos, written, calls, first,
                  other, ui, filters >>

\* logger.py lines 7 to 58, one call.  The level is set before the guard;
\* a configured logger is returned as it is; a directory that cannot be
\* made (line 26) or a file that cannot be opened (line 36) ends the call
\* before a handler is added.
setup_logger(name, log_dir, level) ==
  /\ logging.setups < MaxSetups
  /\ LET call    == logging.setups + 1
         logger  == [ logging.loggerDict[name] EXCEPT !.level = level ]
         began   == IF logging.began[name] = 0 THEN call ELSE logging.began[name]
     IN  IF logger.configured
         THEN logging' = [ logging EXCEPT !.loggerDict[name] = logger, !.setups = call,
                                          !.began[name] = began, !.result = "returned" ]
         ELSE IF log_dir = ForbiddenDir
         THEN logging' = [ logging EXCEPT !.loggerDict[name] = logger, !.setups = call,
                                          !.began[name] = began, !.result = "raised" ]
         ELSE LET ready == [ logger EXCEPT !.handlers = @ \o NewHandlers(name, log_dir, level, call),
                                           !.propagate = FALSE, !.configured = TRUE ]
              IN  logging' = [ logging EXCEPT !.loggerDict[name] = ready, !.setups = call,
                                              !.began[name] = began,
                                              !.returned[name] = IF @ = 0 THEN call ELSE @,
                                              !.records = @ + 1,
                                              !.output = @ \o info(ready, logging.records + 1),
                                              !.result = "returned" ]
  /\ UNCHANGED << template_file, excel_source, output_file, output_before, pc, target_columns,
                  raw, mask_sections, data, out, error, excel_pos, written, calls, first,
                  other, ui, filters >>

\* etl_ui.py line 66: a record logged through the logger named yacht_etl.
LogRequest ==
  /\ logging.records - Cardinality({ n \in LoggerNames : logging.returned[n] # 0 }) < MaxRecords
  /\ logging' = [ logging EXCEPT !.records = @ + 1,
                                 !.output = @ \o info(logging.loggerDict["yacht_etl"], logging.records + 1) ]
  /\ UNCHANGED << template_file, excel_source, output_file, output_before, pc, target_columns,
                  raw, mask_sections, data, out, error, excel_pos, written, calls, first,
                  other, ui, filters >>

NextLogger ==
  \/ \E name \in LoggerNames, log_dir \in LogDirs, level \in SetupLevels :
       setup_logger(name, log_dir, level)
  \/ LogRequest

SpecLogger == InitLogger /\ [][NextLogger]_vars

\* --------------------------------------------------------- render_filters
\* config.py: M_TO_FT = 3.28084, as a ratio.
M_TO_FT == << 82021, 25000 >>

\* The lengths in metres a for which the float (a * M_TO_FT) / M_TO_FT is
\* a itself, is the next float above a, is the next float below a.
Exact == { Whole(10).n, Whole(50).n, Whole(100).n }
RoundsUp == { Whole(29).n }
RoundsDown == { Whole(44).n }

\* x * M_TO_FT (lines 150 and 151), for a length of the dataset.
to_ft(x) == [ x EXCEPT !.e = @ + 1 ]

\* x / M_TO_FT (lines 177 and 178).  The quotient of a product comes back
\* as the length or as a neighbour of it.
to_m(x) ==
  IF x.e = 1
  THEN [ n |-> x.n, e |-> 0,
         ulp |-> CASE x.n \in Exact -> 0 [] x.n \in RoundsUp -> 1 [] x.n \in RoundsDown -> 0 - 1 ]
  ELSE [ x EXCEPT !.e = @ - 1 ]

\* x < y and x <= y for floats whose powers of M_TO_FT differ by at most one.
Scaled(x, y) ==
  IF x.e = y.e THEN x.n ELSE IF x.e > y.e THEN x.n * M_TO_FT[1] ELSE x.n * M_TO_FT[2]
Less(x, y) ==
  \/ Scaled(x, y) < Scaled(y, x)
  \/ Scaled(x, y) = Scaled(y, x) /\ x.ulp < y.ulp
Leq(x, y) == ~Less(y, x)

\* Lines 34 to 37: pd.to_numeric(..., errors="coerce") on the two columns.
Coerce(df) ==
  LET price == IF In("base_price", df.columns)
               THEN SetColumn(df, "base_price",
                              [ i \in DOMAIN df.rows |-> to_numeric(Cell(df.rows[i], "base_price")) ])
               ELSE df
  IN  IF In("loa_metric", price.columns)
      THEN SetColumn(price, "loa_metric",
                     [ i \in DOMAIN price.rows |-> to_numeric(Cell(price.rows[i], "loa_metric")) ])
      ELSE price

\* Mutant: the local name still is the caller's table.
share(df) == [ table |-> df, alias |-> TRUE ]

\* Line 33: df = df.copy(), the local name bound to a table of its own.
copy(df) == [ table |-> df, alias |-> FALSE ]

\* Lines 48 to 54 and 64 to 67: "All" and the values of the column.  The
\* order of the list is not used by the filter.
Options(df, c) ==
  IF In(c, df.columns)
  THEN {All} \cup { Cell(df.rows[i], c).s :
                      i \in { j \in DOMAIN df.rows : ~isna(Cell(df.rows[j], c)) } }
  ELSE {All}

\* The numbers of a column, its least and its greatest.
Numbers(df, c) ==
  { Float(Cell(df.rows[i], c).n) : i \in { j \in DOMAIN df.rows : ~isna(Cell(df.rows[j], c)) } }
min(S) == CHOOSE x \in S : \A y \in S : Leq(x, y)
max(S) == CHOOSE x \in S : \A y \in S : Leq(y, x)

\* Lines 57 and 70: the stored option is not one of the list.
StaleOption(value, opts) == value.t # "str" \/ value.s \notin opts

\* Mutant: the guard looks at the lower end only.
StaleSliderLowOnly(value, lo, hi) ==
  \/ value.t # "tuple"
  \/ Less(value.lo, lo)

\* Lines 85 to 93, 121 to 129 and 158 to 164: the stored value is not a
\* pair within the bounds of the slider.
StaleSlider(value, lo, hi) ==
  \/ value.t # "tuple"
  \/ Less(value.lo, lo)
  \/ Less(hi, value.hi)

\* Mutant: a null is outside every range.
InRangeStrict(v, range) ==
  /\ ~isna(v)
  /\ Leq(range.lo, Float(v.n)) /\ Leq(Float(v.n), range.hi)

\* Lines 200 to 203 and 209 to 212: null, or within the range.
InRange(v, range) ==
  \/ isna(v)
  \/ Leq(range.lo, Float(v.n)) /\ Leq(Float(v.n), range.hi)

\* Lines 189 to 215: the four filters, one after the other.
ApplyFilters(df, selected_disp, selected_mat, price_range, loa_range_m) ==
  LET keep == { i \in DOMAIN df.rows :
                  /\ (selected_disp # All /\ In("displacement_type", df.columns))
                       => Cell(df.rows[i], "displacement_type") = Str(selected_disp)
                  /\ (selected_mat # All /\ In("material", df.columns))
                       => Cell(df.rows[i], "material") = Str(selected_mat)
                  /\ (price_range.t = "tuple" /\ In("base_price", df.columns))
                       => InRange(Cell(df.rows[i], "base_price"), price_range)
                  /\ (loa_range_m.t = "tuple" /\ In("loa_metric", df.columns))
                       => InRange(Cell(df.rows[i], "loa_metric"), loa_range_m) }
  IN  FilterRows(df, keep)

\* The one element of a set of one element.
Only(S) == CHOOSE x \in S : TRUE

\* Lines 46 to 54, 64 to 67, 77 to 80, 108 to 117 and 150 to 154: the
\* option lists and the bounds of the sliders, for the coerced table.
Widgets(numeric, length_unit) ==
  LET prices  == Numbers(numeric, "base_price")
      lengths == Numbers(numeric, "loa_metric")
      has_price == In("base_price", numeric.columns) /\ prices # {}
      has_loa   == In("loa_metric", numeric.columns) /\ lengths # {}
  IN  [ disp_opts    |-> Options(numeric, "displacement_type"),
        mat_opts     |-> Options(numeric, "material"),
        price_bounds |-> IF has_price THEN Pair(min(prices), max(prices)) ELSE NoRange,
        loa_data     |-> IF has_loa THEN Pair(min(lengths), max(lengths)) ELSE NoRange,
        loa_bounds   |-> IF ~has_loa THEN NoRange
                         ELSE IF length_unit = "m" THEN Pair(min(lengths), max(lengths))
                         ELSE Pair(to_ft(min(lengths)), to_ft(max(lengths))) ]

\* Lines 57, 58, 70, 71, 85 to 94, 121 to 130 and 158 to 165: the session
\* state after the guards, the state the widgets are rendered with.
Guarded(state, w, reset_filters) ==
  [ k \in FilterKeys |->
      CASE k = disp_key ->
             IF reset_filters \/ StaleOption(state[k], w.disp_opts) THEN Choice(All) ELSE state[k]
        [] k = mat_key ->
             IF reset_filters \/ StaleOption(state[k], w.mat_opts) THEN Choice(All) ELSE state[k]
        [] k = price_key ->
             IF w.price_bounds.t = "tuple"
                /\ (reset_filters \/ StaleSlider(state[k], w.price_bounds.lo, w.price_bounds.hi))
             THEN w.price_bounds ELSE state[k]
        [] k = loa_key ->
             IF w.loa_bounds.t = "tuple"
                /\ (reset_filters \/ StaleSlider(state[k], w.loa_bounds.lo, w.loa_bounds.hi))
             THEN w.loa_bounds ELSE state[k] ]

\* Lines 96 to 104: the range of the price slider, (None, None) without it.
PriceRange(s, w) == IF w.price_bounds.t = "tuple" THEN s[price_key] ELSE NoRange

\* Lines 132 to 141, 167 to 179 and 186: the range of the LOA slider in
\* metres, (None, None) without the slider.
LoaRange(s, w, length_unit) ==
  IF w.loa_bounds.t # "tuple" THEN NoRange
  ELSE IF length_unit = "m" THEN s[loa_key]
  ELSE Pair(to_m(s[loa_key].lo), to_m(s[loa_key].hi))

\* filters.py lines 12 to 215, one call: the session state as the widgets
\* are given it, the lists and bounds of the widgets, the ranges applied,
\* the table returned and the caller's table after the call.  A widget
\* with a key returns the value st.session_state holds under the key.
render_filters(df, length_unit, state, reset_filters) ==
  Only({ Only({ Only({ Only({
    [ session_state |-> s,
      disp_opts     |-> w.disp_opts,
      mat_opts      |-> w.mat_opts,
      price_bounds  |-> w.price_bounds,
      loa_bounds    |-> w.loa_bounds,
      loa_data      |-> w.loa_data,
      price_range   |-> price_range,
      loa_range_m   |-> loa_range_m,
      filtered      |-> ApplyFilters(numeric, s[disp_key].s, s[mat_key].s, price_range, loa_range_m),
      caller_df     |-> IF copy(df).alias THEN numeric ELSE df ] :
        price_range \in { PriceRange(s, w) }, loa_range_m \in { LoaRange(s, w, length_unit) } }) :
        s \in { Guarded(state, w, reset_filters) } }) :
        w \in { Widgets(numeric, length_unit) } }) :
        numeric \in { Coerce(copy(df).table) } })

\* The reruns of the page that are followed.
MaxRenders == 3

\* The datasets at OUTPUT_PATH: one row per yacht, with its index label.
Yacht(i, disp, mat, price, loa) ==
  SetCell(SetCell(SetCell(SetCell([ idx |-> i, cells |-> NoCells ],
    "displacement_type", disp), "material", mat), "base_price", price), "loa_metric", loa)
FilterColumns == << "displacement_type", "material", "base_price", "loa_metric" >>
GRP == << "G", "R", "P" >>
Fleet ==
  [ columns |-> FilterColumns,
    rows |-> << Yacht(0, Str(FULL_DISPLACEMENT), Str(Steel), Num(Whole(5).n), Num(Whole(10).n)),
                Yacht(1, Str(SEMI_DISPLACEMENT), Str(GRP), Num(Whole(12).n), Num(Whole(50).n)),
                Yacht(2, Str(FULL_DISPLACEMENT), Str(Steel), Num(Whole(20).n), Num(Whole(100).n)) >> ]
Pair29 ==
  [ columns |-> FilterColumns,
    rows |-> << Yacht(0, Str(FULL_DISPLACEMENT), Str(Steel), Num(Whole(5).n), Num(Whole(29).n)),
                Yacht(1, Str(FULL_DISPLACEMENT), Str(Steel), Num(Whole(12).n), Num(Whole(44).n)) >> ]
Gaps ==
  [ columns |-> FilterColumns,
    rows |-> << Yacht(0, Str(FULL_DISPLACEMENT), Str(Steel), NA, Num(Whole(50).n)),
                Yacht(1, Str(SEMI_DISPLACEMENT), NA, Num(Whole(12).n), NA),
                Yacht(2, NA, Str(GRP), Str(NotKnown), Num(Whole(10).n)),
                Yacht(3, Str(SEMI_DISPLACEMENT), Str(GRP), Str(Five), Str(Twelve)) >> ]
Bare ==
  [ columns |-> << "displacement_type", "base_price", "loa_metric" >>,
    rows |-> << Yacht(0, Str(FULL_DISPLACEMENT), NA, NA, NA),
                Yacht(1, NA, NA, Str(NotKnown), NA) >> ]
FilterDatasets == { Fleet, Pair29, Gaps, Bare }

\* The values the user can drag the ends of a slider to: its ends and
\* some values between them.
PricePicks(bounds) ==
  { bounds.lo, bounds.hi } \cup { x \in { Whole(10) } : Leq(bounds.lo, x) /\ Leq(x, bounds.hi) }
LoaPicks(bounds) ==
  { bounds.lo, bounds.hi } \cup { x \in { Whole(40), Whole(90) } : Leq(bounds.lo, x) /\ Leq(x, bounds.hi) }

InitFilters ==
  /\ template_file = Template(AssembledFields)
  /\ excel_source = Sheet(REQUIRED_EXCEL_COLUMNS, << >>)
  /\ output_file = Absent
  /\ output_before = output_file
  /\ pc = "idle"
  /\ target_columns = << >>
  /\ raw = NoTable
  /\ mask_sections = {}
  /\ data = NoTable
  /\ out = NoTable
  /\ error = NoError
  /\ excel_pos = "none"
  /\ written = 0
  /\ calls = 0
  /\ first = NoResult
  /\ other = NoOther
  /\ ui = NoUI
  /\ logging = NoLogging
  /\ \E df \in FilterDatasets : filters = [ NoFilters EXCEPT !.df = df ]

\* main_app.py lines 30 to 64, one rerun of the page up to the filters: the
\* unit of the radio, the dataset loaded, render_filters.
Rerun(event, df, length_unit, state, reset_filters) ==
  /\ filters.reruns < MaxRenders
  /\ filters' = [ pc |-> "rendered", df |-> df, length_unit |-> length_unit,
                  reset_filters |-> reset_filters, event |-> event,
                  reruns |-> filters.reruns + 1,
                  run |-> render_filters(df, length_unit, state, reset_filters),
                  before |-> [ length_unit |-> filters.length_unit, df |-> filters.df,
                               run |-> filters.run ] ]
  /\ UNCHANGED << template_file, excel_source, output_file, output_before, pc, target_columns,
                  raw, mask_sections, data, out, error, excel_pos, written, calls, first,
                  other, ui, logging >>

\* The first run of a session: no widget has a state, the unit is m.
FirstRun ==
  /\ filters.pc = "none"
  /\ Rerun("load", filters.df, "m", filters.run.session_state, FALSE)

\* The user picks an option of the displacement selectbox.
SelectDisplacement ==
  /\ filters.pc = "rendered"
  /\ \E v \in filters.run.disp_opts \ { filters.run.session_state[disp_key].s } :
       Rerun("displacement", filters.df, filters.length_unit,
             [ filters.run.session_state EXCEPT ![disp_key] = Choice(v) ], FALSE)

\* The user picks an option of the material selectbox.
SelectMaterial ==
  /\ filters.pc = "rendered"
  /\ \E v \in filters.run.mat_opts \ { filters.run.session_state[mat_key].s } :
       Rerun("material", filters.df, filters.length_unit,
             [ filters.run.session_state EXCEPT ![mat_key] = Choice(v) ], FALSE)

\* The user drags the price slider.
MovePrice ==
  /\ filters.pc = "rendered"
  /\ filters.run.price_bounds.t = "tuple"
  /\ \E lo, hi \in PricePicks(filters.run.price_bounds) :
       /\ Leq(lo, hi)
       /\ Pair(lo, hi) # filters.run.session_state[price_key]
       /\ Rerun("price", filters.df, filters.length_unit,
                [ filters.run.session_state EXCEPT ![price_key] = Pair(lo, hi) ], FALSE)

\* The user drags the LOA slider, which is in the unit of the last run.
MoveLoa ==
  /\ filters.pc = "rendered"
  /\ filters.run.loa_bounds.t = "tuple"
  /\ \E lo, hi \in LoaPicks(filters.run.loa_bounds) :
       /\ Leq(lo, hi)
       /\ Pair(lo, hi) # filters.run.session_state[loa_key]
       /\ Rerun("loa", filters.df, filters.length_unit,
                [ filters.run.session_state EXCEPT ![loa_key] = Pair(lo, hi) ], FALSE)

\* The user picks the other length unit of the radio.
ToggleUnit ==
  /\ filters.pc = "rendered"
  /\ Rerun("unit", filters.df, IF filters.length_unit = "m" THEN "ft" ELSE "m",
           filters.run.session_state, FALSE)

\* The user clicks "Reset filters".
ClickReset ==
  /\ filters.pc = "rendered"
  /\ Rerun("reset", filters.df, filters.length_unit, filters.run.session_state, TRUE)

\* A build has replaced the dataset; the page is rerun with it.
DatasetChanges ==
  /\ filters.pc = "rendered"
  /\ \E df \in FilterDatasets \ { filters.df } :
       Rerun("dataset", df, filters.length_unit, filters.run.session_state, FALSE)

NextFilters ==
  \/ FirstRun
  \/ SelectDisplacement
  \/ SelectMaterial
  \/ MovePrice
  \/ MoveLoa
  \/ ToggleUnit
  \/ ClickReset
  \/ DatasetChanges

SpecFilters == InitFilters /\ [][NextFilters]_vars

\* ------------------------------------------------------------ two calls
\* The calls that are made one after the other.
MaxCalls == 2

\* The calls that are repeated: the templates of the pool with the full
\* header row and with one that lacks a header, the sheets of the examples,
\* and the sheets with one price changed.
TwiceInputs ==
  { in \in SchemaInputs :
      in.excel.columns \in {REQUIRED_EXCEL_COLUMNS, Without(REQUIRED_EXCEL_COLUMNS, {"Max beam"})} }
  \cup { [template |-> Template(AssembledFields), excel |-> Sheet(REQUIRED_EXCEL_COLUMNS, names)] :
           names \in {ExampleNames, NaTextNames, BothLabelNames} }
  \cup { [template |-> Template(AssembledFields), excel |-> CellSheet("Price / m2" :> v)] :
           v \in NumericCells }

\* The first call: excel_source is a path, or a file object at its start or,
\* after an earlier read, at its end.
InitTwice ==
  /\ \E in \in TwiceInputs : template_file = in.template /\ excel_source = in.excel
  /\ output_file \in {Absent, OldFile}
  /\ output_before = output_file
  /\ pc = "template"
  /\ target_columns = << >>
  /\ raw = NoTable
  /\ mask_sections = {}
  /\ data = NoTable
  /\ out = NoTable
  /\ error = NoError
  /\ excel_pos \in {"none", "start", "end"}
  /\ written = 0
  /\ calls = 1
  /\ first = NoResult
  /\ other = NoOther
  /\ ui = NoUI
  /\ logging = NoLogging
  /\ filters = NoFilters

\* build_master_csv is called again with the same arguments once it has
\* returned or raised: the same template, the same workbook (the same file
\* object, where the read left it), the file at output_path as it is.
CallAgain ==
  /\ pc \in {"done", "raised"}
  /\ calls < MaxCalls
  /\ calls' = calls + 1
  /\ first' = [pc |-> pc, out |-> out, file |-> output_file, error |-> error]
  /\ output_before' = output_file
  /\ pc' = "template"
  /\ target_columns' = << >>
  /\ raw' = NoTable
  /\ mask_sections' = {}
  /\ data' = NoTable
  /\ out' = NoTable
  /\ error' = NoError
  /\ written' = 0
  /\ UNCHANGED << template_file, excel_source, output_file, excel_pos, other, ui >>
  /\ UNCHANGED << logging, filters >>

NextTwice ==
  \/ Next
  \/ CallAgain

SpecTwice == InitTwice /\ [][NextTwice]_vars

\* ---------------------------------------------------- the Streamlit page
\* The reruns of the script that are followed.
MaxReruns == 2

\* The files behind the page: the full template, one with an uncovered
\* field and an unreadable one; a workbook with the full header row or
\* lacking a header, with one yacht row or none.
UIInputs ==
  { [template |-> t, excel |-> Sheet(h, names)] :
      t \in { Template(AssembledFields), Template(UncoveredTemplate), UnreadableTemplate },
      h \in { REQUIRED_EXCEL_COLUMNS, Without(REQUIRED_EXCEL_COLUMNS, {"Max beam"}) },
      names \in { << >>, << Str(YachtNames[1]) >> } }

\* Before the first run of the script: nothing in the session state,
\* nothing on the page, build_master_csv not called.
InitUI ==
  /\ \E in \in UIInputs : template_file = in.template /\ excel_source = in.excel
  /\ output_file \in {Absent, OldFile}
  /\ output_before = output_file
  /\ pc = "idle"
  /\ target_columns = << >>
  /\ raw = NoTable
  /\ mask_sections = {}
  /\ data = NoTable
  /\ out = NoTable
  /\ error = NoError
  /\ excel_pos = "start"
  /\ written = 0
  /\ calls = 0
  /\ first = NoResult
  /\ other = NoOther
  /\ ui = [ NoUI EXCEPT !.pc = "idle" ]
  /\ logging = NoLogging
  /\ filters = NoFilters

\* A message in the sidebar: st.sidebar.info, .success or .error with its
\* text and the values formatted into it.
Message(kind, text, args) == [kind |-> kind, text |-> text, args |-> args]

\* etl_ui.py lines 24 to 72, from the start of a rerun to the call of
\* build_master_csv: the uploader holds a file or none, pd.ExcelFile reads
\* it or fails, the button was clicked or not.
RenderSidebarETL(file, readable, click) ==
  /\ ui.pc = "idle"
  /\ ui.reruns < MaxReruns
  /\ LET sheet == file /\ readable
         shown == IF file /\ ~readable
                  THEN << Message("error", "Failed to read Excel file", << >>) >> ELSE << >>
         run   == [ ui EXCEPT !.file = file, !.sheet = sheet, !.rebuild = click,
                              !.keys = {"cheatsheet_uploader"}
                                         \cup (IF sheet THEN {"cheatsheet_sheet"} ELSE {}),
                              !.paths = FALSE, !.page = "none",
                              !.before = output_file, !.loaded = Absent,
                              !.reruns = @ + 1, !.builds = 0 ]
     IN  IF click /\ ~file
         THEN /\ ui' = [ run EXCEPT !.pc = "main", !.messages = Append(shown,
                          Message("error", "Please upload an Excel file (.xlsx) first.", << >>)) ]
              /\ UNCHANGED << pc, target_columns, raw, mask_sections, data, out, error,
                              output_before, written, calls, excel_pos >>
         ELSE IF click /\ ~sheet
         THEN /\ ui' = [ run EXCEPT !.pc = "main", !.messages = Append(shown,
                          Message("error", "Please select a sheet.", << >>)) ]
              /\ UNCHANGED << pc, target_columns, raw, mask_sections, data, out, error,
                              output_before, written, calls, excel_pos >>
         ELSE IF click
         THEN /\ ui' = [ run EXCEPT !.pc = "etl", !.builds = 1, !.messages = Append(shown,
                          Message("info", "Running ETL to build dataset", << >>)) ]
              /\ calls' = calls + 1
              /\ pc' = "template"
              /\ target_columns' = << >>
              /\ raw' = NoTable
              /\ mask_sections' = {}
              /\ data' = NoTable
              /\ out' = NoTable
              /\ error' = NoError
              /\ output_before' = output_file
              /\ written' = 0
              /\ excel_pos' = "end"
         ELSE /\ ui' = [ run EXCEPT !.pc = "rest", !.messages = shown ]
              /\ excel_pos' = IF sheet THEN "end" ELSE excel_pos
              /\ UNCHANGED << pc, target_columns, raw, mask_sections, data, out, error,
                              output_before, written, calls >>
  /\ UNCHANGED << template_file, excel_source, output_file, first, other >>
  /\ UNCHANGED << logging, filters >>

\* etl_ui.py lines 74 to 82: build_master_csv has returned; the two widget
\* keys are dropped and the success message is shown.
BuildReturns ==
  /\ ui.pc = "etl"
  /\ pc = "done"
  /\ ui' = [ ui EXCEPT !.pc = "rest",
                       !.keys = @ \ {"cheatsheet_uploader", "cheatsheet_sheet"},
                       !.messages = Append(@, Message("success", "ETL completed successfully", << >>)) ]
  /\ UNCHANGED << template_file, excel_source, output_file, output_before, pc, target_columns,
                  raw, mask_sections, data, out, error, excel_pos, written, calls, first, other >>
  /\ UNCHANGED << logging, filters >>

\* Mutant: the two widget keys are dropped after a failed build too.
BuildRaisesDropKeys ==
  /\ ui.pc = "etl"
  /\ pc = "raised"
  /\ ui' = [ ui EXCEPT !.pc = "rest",
                       !.keys = @ \ {"cheatsheet_uploader", "cheatsheet_sheet"},
                       !.messages = Append(@, Message("error", "ETL failed", << error >>)) ]
  /\ UNCHANGED << template_file, excel_source, output_file, output_before, pc, target_columns,
                  raw, mask_sections, data, out, error, excel_pos, written, calls, first, other >>
  /\ UNCHANGED << logging, filters >>

\* etl_ui.py lines 83 to 85: build_master_csv has raised; the exception is
\* caught and shown.
BuildRaises ==
  /\ ui.pc = "etl"
  /\ pc = "raised"
  /\ ui' = [ ui EXCEPT !.pc = "rest",
                       !.messages = Append(@, Message("error", "ETL failed", << error >>)) ]
  /\ UNCHANGED << template_file, excel_source, output_file, output_before, pc, target_columns,
                  raw, mask_sections, data, out, error, excel_pos, written, calls, first, other >>
  /\ UNCHANGED << logging, filters >>

\* etl_ui.py lines 90 to 97: the paths at the foot of the sidebar.
RenderPaths ==
  /\ ui.pc = "rest"
  /\ ui' = [ ui EXCEPT !.pc = "main", !.paths = TRUE ]
  /\ UNCHANGED << template_file, excel_source, output_file, output_before, pc, target_columns,
                  raw, mask_sections, data, out, error, excel_pos, written, calls, first, other >>
  /\ UNCHANGED << logging, filters >>

\* Mutant: the dataset is the file as it was when the rerun began.
RenderMainStale ==
  /\ ui.pc = "main"
  /\ ui' = [ ui EXCEPT !.pc = "idle",
                       !.page = IF ~ui.before.exists THEN "no_dataset"
                                ELSE IF ui.before.header = << >> THEN "load_failed"
                                ELSE IF ui.before.rows = << >> THEN "empty"
                                ELSE "dashboard",
                       !.loaded = IF ui.before.exists /\ ui.before.header # << >>
                                  THEN ui.before ELSE Absent ]
  /\ UNCHANGED << template_file, excel_source, output_file, output_before, pc, target_columns,
                  raw, mask_sections, data, out, error, excel_pos, written, calls, first, other >>
  /\ UNCHANGED << logging, filters >>

\* main_app.py lines 45 to 81: what the page shows below the title: the
\* hint that there is no dataset, the error of a file that does not load,
\* the warning of an empty dataset, or the filters and the tabs.
RenderMain ==
  /\ ui.pc = "main"
  /\ ui' = [ ui EXCEPT !.pc = "idle",
                       !.page = IF ~output_file.exists THEN "no_dataset"
                                ELSE IF output_file.header = << >> THEN "load_failed"
                                ELSE IF output_file.rows = << >> THEN "empty"
                                ELSE "dashboard",
                       !.loaded = IF output_file.exists /\ output_file.header # << >>
                                  THEN output_file ELSE Absent ]
  /\ UNCHANGED << template_file, excel_source, output_file, output_before, pc, target_columns,
                  raw, mask_sections, data, out, error, excel_pos, written, calls, first, other >>
  /\ UNCHANGED << logging, filters >>

NextUI ==
  \/ Next
  \/ \E file \in BOOLEAN, readable \in BOOLEAN, click \in BOOLEAN :
       RenderSidebarETL(file, readable, click)
  \/ BuildReturns
  \/ BuildRaises
  \/ RenderPaths
  \/ RenderMain

SpecUI == InitUI /\ [][NextUI]_vars

\* ------------------------------------------------- the sheet, as given
\* The name of row i of the sheet as the reader returns it.
OrigName(i) ==
  IF "Name" \in DOMAIN excel_source.rows[i]
  THEN ReadExcelCell(excel_source.rows[i]["Name"]) ELSE NA

SheetRowsIdx == DOMAIN excel_source.rows
IsMarkerRow(i) == OrigName(i).t = "str" /\ Contains(Upper(OrigName(i).s), DISPLACEMENT)
IsUnitsRow(i) == OrigName(i) = Str(Units)
IsMissingNameRow(i) == isna(OrigName(i))
MarkerRows == { i \in SheetRowsIdx : IsMarkerRow(i) }
UnitsRows == { i \in SheetRowsIdx : IsUnitsRow(i) }
MissingNameRows == { i \in SheetRowsIdx : IsMissingNameRow(i) }

\* The label each marker text of the sheets stands for.
FastDisplacement == <<"F","a","s","t"," ","D","i","s","p","l","a","c","e","m","e","n","t">>
LabelOf(name) ==
  CASE name = Str(FullMarkerName)  -> Str(FULL_DISPLACEMENT)
    [] name = Str(SemiMarkerName)  -> Str(SEMI_DISPLACEMENT)
    [] name = Str(OtherMarkerName) -> Str(FastDisplacement)
    [] name = Str(BothMarkerName)  -> Str(SEMI_DISPLACEMENT)

\* The greatest number of a set of numbers.
Greatest(S) == CHOOSE j \in S : \A k \in S : k <= j

\* build_master_csv has built the table it writes and returns.
Built == pc \in {"save", "writing", "done"}
HasColumn(df, c) == In(c, df.columns)

\* C1: every row retained in the output that has a section marker above it
\* in the sheet has a non-null displacement_type, the normalized label of the
\* nearest marker above it, whatever rows lie between and whatever markers
\* lie below.
C1_ForwardFill ==
  (Built /\ HasColumn(out, "displacement_type")) =>
    LET markers == MarkerRows IN
    \A r \in DOMAIN out.rows :
      LET above == { j \in markers : j < out.rows[r].idx } IN
      above # {} =>
        /\ ~isna(Cell(out.rows[r], "displacement_type"))
        /\ Cell(out.rows[r], "displacement_type") = LabelOf(OrigName(Greatest(above)))

\* A returned row whose nearest marker is at least two rows above it, with a
\* "Units" or nameless row between, and a marker of another label below it.
C1_Witness ==
  /\ pc = "done"
  /\ HasColumn(out, "displacement_type")
  /\ \E r \in DOMAIN out.rows :
       LET i == out.rows[r].idx
           above == { j \in MarkerRows : j < i }
       IN  /\ above # {}
           /\ \E j \in (UnitsRows \cup MissingNameRows) : Greatest(above) < j /\ j < i
           /\ \E k \in MarkerRows :
                k > i /\ LabelOf(OrigName(k)) # LabelOf(OrigName(Greatest(above)))

\* The call of the forward-fill example.
IsExampleCall ==
  /\ excel_source = Sheet(REQUIRED_EXCEL_COLUMNS, ExampleNames)
  /\ template_file = Template(AssembledFields)

\* The names and the displacement types of the rows of a table, in order.
NamesOf(df) == [ r \in DOMAIN df.rows |-> Cell(df.rows[r], "name") ]
TypesOf(df) == [ r \in DOMAIN df.rows |-> Cell(df.rows[r], "displacement_type") ]

\* C2 as stated: in the example both named rows are section markers, the
\* output is A, B, C, with A and B in FULL DISPLACEMENT and C in
\* SEMI-DISPLACEMENT.
C2_AsStated ==
  (IsExampleCall /\ pc = "done") =>
    /\ mask_sections = {1, 4}
    /\ NamesOf(out) = << Str(YachtNames[1]), Str(YachtNames[2]), Str(YachtNames[3]) >>
    /\ TypesOf(out) = << Str(FULL_DISPLACEMENT), Str(FULL_DISPLACEMENT), Str(SEMI_DISPLACEMENT) >>

\* C2, amended: in the example only the row named "FULL DISPLACEMENT" is a
\* section marker ("Semi Disp." does not contain "DISPLACEMENT"); the output
\* is A, B, "Semi Disp.", C, all four in FULL DISPLACEMENT.
C2_Example ==
  (IsExampleCall /\ pc = "done") =>
    /\ mask_sections = {1}
    /\ NamesOf(out) = << Str(YachtNames[1]), Str(YachtNames[2]), Str(SemiDispName),
                         Str(YachtNames[3]) >>
    /\ TypesOf(out) = << Str(FULL_DISPLACEMENT), Str(FULL_DISPLACEMENT),
                         Str(FULL_DISPLACEMENT), Str(FULL_DISPLACEMENT) >>
    /\ output_file = CsvFile(out)

C2_Witness == IsExampleCall /\ pc = "done"

\* C3 as stated: no row of a table that build_master_csv produces has a null
\* displacement_type, the rows above the first marker of the sheet included.
C3_NeverNull ==
  (Built /\ HasColumn(out, "displacement_type")) =>
    \A r \in DOMAIN out.rows : ~isna(Cell(out.rows[r], "displacement_type"))

\* The sequence of the numbers of S, ascending.
RECURSIVE Ascending(_)
Ascending(S) ==
  IF S = {} THEN << >>
  ELSE LET m == CHOOSE x \in S : \A y \in S : x <= y IN << m >> \o Ascending(S \ {m})

\* C4: the output has the rows of the sheet less the section markers, the
\* rows named "Units" and the rows without a name; the three sets are
\* disjoint; the rows kept are exactly the others, each once, in the order
\* of the sheet, with their names.
C4_RowCount ==
  Built =>
    LET markers == MarkerRows
        units == UnitsRows
        nameless == MissingNameRows
    IN
    /\ markers \cap units = {}
    /\ markers \cap nameless = {}
    /\ units \cap nameless = {}
    /\ Len(out.rows) = Len(excel_source.rows) - Cardinality(markers)
                         - Cardinality(units) - Cardinality(nameless)
    /\ [ r \in DOMAIN out.rows |-> out.rows[r].idx ]
         = Ascending(SheetRowsIdx \ (markers \cup units \cup nameless))
    /\ HasColumn(out, "name") =>
         \A r \in DOMAIN out.rows : Cell(out.rows[r], "name") = OrigName(out.rows[r].idx)
    /\ pc = "done" => Len(output_file.rows) = Len(out.rows)

\* A finished call on a sheet with a marker, a "Units" row, a nameless row
\* and a row that is kept.
C4_Witness ==
  /\ pc = "done"
  /\ MarkerRows # {} /\ UnitsRows # {} /\ MissingNameRows # {}
  /\ Len(out.rows) >= 1

\* C5: when build_master_csv succeeds, the columns of the returned table and
\* the header of the written file are the header of the template, field for
\* field and in its order, and no row holds a cell of any other column.
C5_SchemaOrder ==
  pc = "done" =>
    /\ out.columns = template_file.header
    /\ output_file.header = template_file.header
    /\ \A r \in DOMAIN out.rows : DOMAIN out.rows[r].cells \subseteq Range(template_file.header)
    /\ \A r \in DOMAIN output_file.rows : Len(output_file.rows[r]) = Len(template_file.header)

\* A finished call with rows, on a sheet with a column the map does not
\* know, under a template that is not in the order of assembly.
C5_Witness ==
  /\ pc = "done"
  /\ template_file.header # AssembledFields
  /\ In("Comments", excel_source.columns)
  /\ Len(out.rows) >= 1

\* The required headers the sheet lacks.
LackingHeaders == Range(REQUIRED_EXCEL_COLUMNS) \ Range(excel_source.columns)

\* C6: when the sheet lacks required headers the call fails at header
\* validation; the error it raises there names every required header that
\* is missing, each once, none that is present, and lists the headers of the
\* sheet (an unreadable template has failed the call before the sheet is read).
C6_MissingHeaders ==
  (LackingHeaders # {} /\ pc \notin {"template", "excel", "validate"}) =>
    /\ pc = "raised"
    /\ error.type = (IF template_file.readable THEN "ValueError" ELSE "TemplateError")
    /\ error.type = "ValueError" =>
         /\ Range(error.names) = LackingHeaders
         /\ Len(error.names) = Cardinality(LackingHeaders)
         /\ error.available = excel_source.columns

\* A failed call on a sheet that lacks two required headers and has a
\* column of its own.
C6_Witness ==
  /\ pc = "raised"
  /\ error.type = "ValueError"
  /\ Cardinality(LackingHeaders) >= 2
  /\ In("Comments", excel_source.columns)

\* C7: a missing-header failure leaves build_master_csv before any row is
\* classified, filtered or assembled, and the file at output_path is what it
\* was when the call began.
C7_AbortBeforeRows ==
  error.type = "ValueError" =>
    /\ pc = "raised"
    /\ output_file = output_before
    /\ raw = ReadExcel(excel_source)
    /\ mask_sections = {}
    /\ data = NoTable
    /\ out = NoTable

\* A missing-header failure on a sheet with a row, a dataset being in place.
C7_Witness ==
  /\ pc = "raised"
  /\ error.type = "ValueError"
  /\ output_before = OldFile
  /\ Len(excel_source.rows) >= 1

\* C8 as stated: at every point of a call the file at output_path is the
\* complete previous file (or absent as before) or the complete new table.
C8_NoPartialOutput ==
  \/ output_file = output_before
  \/ pc \in {"writing", "done", "raised"} /\ output_file = CsvFile(out)

\* C9: no row of the output has a name that is null or the empty string:
\* not in the table that is built, nor in the rows left by the filtering,
\* nor in the lines of the written file.
C9_NameNotEmpty ==
  /\ (pc = "build" \/ Built) =>
       \A r \in DOMAIN data.rows : Cell(data.rows[r], "name") \notin {NA, Str(EmptyText)}
  /\ (Built /\ HasColumn(out, "name")) =>
       \A r \in DOMAIN out.rows : Cell(out.rows[r], "name") \notin {NA, Str(EmptyText)}
  /\ (pc = "done" /\ HasColumn(out, "name")) =>
       \A r \in DOMAIN output_file.rows :
         \A c \in DOMAIN output_file.header :
           output_file.header[c] = "name" => output_file.rows[r][c] # Str(EmptyText)

\* A finished call with rows, on a sheet with a blank Name cell or one that
\* holds the empty text.
C9_Witness ==
  /\ pc = "done"
  /\ HasColumn(out, "name")
  /\ Len(out.rows) >= 1
  /\ \E i \in SheetRowsIdx :
       \/ "Name" \notin DOMAIN excel_source.rows[i]
       \/ excel_source.rows[i]["Name"] = Str(EmptyText)

\* The fields of the template that build_master_csv does not assemble.
UncoveredFields == { f \in Range(template_file.header) : ~In(f, AssembledFields) }

\* C10: when the template names a field that is not assembled, the call
\* never reaches the write and the file at output_path stays what it was;
\* the error raised at the selection names the uncovered fields, all of them
\* and no others (a sheet that lacks required headers has failed before).
C10_UncoveredField ==
  UncoveredFields # {} =>
    /\ ~Built
    /\ output_file = output_before
    /\ (pc = "raised" /\ LackingHeaders = {}) =>
         /\ error.type = "KeyError"
         /\ Range(error.names) = UncoveredFields
         /\ Len(error.names) = Cardinality(UncoveredFields)

\* A call that failed at the selection with two uncovered fields, a dataset
\* being in place.
C10_Witness ==
  /\ pc = "raised"
  /\ error.type = "KeyError"
  /\ Cardinality(UncoveredFields) >= 2
  /\ output_before = OldFile

\* ------------------------------------------------ the cells of the sheet
\* The cell of row i of the sheet under header h, as entered.
SheetCell(i, h) ==
  IF h \in DOMAIN excel_source.rows[i] THEN excel_source.rows[i][h] ELSE NA

\* The header of the sheet that is renamed to the internal name c.
HeaderOf(c) ==
  EXCEL_COLUMN_PAIRS[CHOOSE i \in DOMAIN EXCEL_COLUMN_PAIRS : EXCEL_COLUMN_PAIRS[i][2] = c][1]

\* The headers that the output field of entry a of the assembly is computed from.
SourcesOf(a) ==
  IF a[1] = "displacement_type" THEN {"Name"} ELSE {HeaderOf(a[3]), HeaderOf(a[4])}

\* The cells of the sheets that are numbers, and the number each stands for.
Parses(v) == v.t = "num" \/ v \in {Str(Twelve), Str(Five)}
NumberOf(v) ==
  CASE v.t = "num"     -> v
    [] v = Str(Twelve) -> Num(144)
    [] v = Str(Five)   -> Num(60)

\* The call has the full header row and the full template.
IsFullCall ==
  /\ excel_source.columns = REQUIRED_EXCEL_COLUMNS
  /\ template_file = Template(AssembledFields)

\* The call has a sheet of a marker, a yacht row with changed cells and the
\* yacht row without the change; the headers of the changed cells.
IsCellCall ==
  /\ IsFullCall
  /\ Len(excel_source.rows) = 3
  /\ excel_source.rows[3] = PlainCells(YachtNames[2])
ChangedHeaders ==
  { h \in Range(REQUIRED_EXCEL_COLUMNS) \ {"Name"} : SheetCell(2, h) # SheetCell(3, h) }

\* The output row of the yacht row without a change, whatever its name.
PlainOutput ==
  ("base_price" :> Num(150))
  @@ ("price_m2" :> Num(120))
  @@ ("loa_metric" :> Num(360))
  @@ ("loa_imperial" :> Num(1181))
  @@ ("material" :> Str(Steel))
  @@ ("engine" :> Str(MAN_V12))
  @@ ("notes" :> Str(Ok))
  @@ ("displacement_type" :> Str(FULL_DISPLACEMENT))

\* The numeric output fields: the entries of the assembly that are not copies.
NumericEntries == { i \in DOMAIN ASSEMBLY : ASSEMBLY[i][2] # "copy" }

\* C11: with a valid sheet and template the call fails on no cell: it ends
\* with the table written.  In every retained row a numeric output field
\* with a source cell that is no number (text, "N/A", empty text, blank) is
\* null; the row is emitted all the same; the other cells of the row are
\* what they are in the row without the bad cell, and the other row is what
\* it is in every sheet.
C11_CoercionNeverAborts ==
  IsFullCall =>
    /\ pc = "raised" => error.type = "OSError"
    /\ pc = "done" => output_file = CsvFile(out)
    /\ Built =>
         /\ \A r \in DOMAIN out.rows : \A i \in NumericEntries :
              (\E h \in SourcesOf(ASSEMBLY[i]) : ~Parses(SheetCell(out.rows[r].idx, h)))
                => isna(Cell(out.rows[r], ASSEMBLY[i][1]))
         /\ \A i \in SheetRowsIdx :
              (~IsMarkerRow(i) /\ ~IsUnitsRow(i) /\ ~IsMissingNameRow(i))
                => \E r \in DOMAIN out.rows : out.rows[r].idx = i
    /\ (Built /\ IsCellCall) =>
         /\ Len(out.rows) = 2
         /\ out.rows[2].cells = ("name" :> Str(YachtNames[2])) @@ PlainOutput
         /\ LET changed == ChangedHeaders IN
            \A i \in DOMAIN ASSEMBLY :
              (ASSEMBLY[i][1] # "name" /\ SourcesOf(ASSEMBLY[i]) \cap changed = {})
                => Cell(out.rows[1], ASSEMBLY[i][1]) = Cell(out.rows[2], ASSEMBLY[i][1])

\* A call that has returned a row with a numeric cell of text that is no
\* number: the output cell is null, the row's other cells are there, the
\* other row too.
C11_Witness ==
  /\ pc = "done"
  /\ IsCellCall
  /\ SheetCell(2, "Price / m2") = Str(NotKnown)
  /\ isna(Cell(out.rows[1], "price_m2"))
  /\ Cell(out.rows[1], "base_price") = Num(150)
  /\ Len(out.rows) = 2

\* ---------------------------------------------------- the section labels
\* The displacement_type column of raw is there.
Labelled == pc \in {"clean", "build", "save", "writing", "done"}
LabelAt(i) == Cell(raw.rows[i], "displacement_type")

TextFields ==
  { <<"name", "Name">>, <<"material", "Material">>, <<"propulsion", "Propulsion">>,
    <<"notes", "Notes">>, <<"engine", "Largest Engine">>,
    <<"generators", "Generators (Recommended)">>, <<"bow_thr", "Bow thr.">>,
    <<"stabilizers", "Stabilizers">> }
MachineryFields == {"engine", "generators", "bow_thr", "stabilizers"}

\* C13: for a text s that the reader returns for a retained row, the output
\* cell is null if and only if the field is engine, generators, bow_thr or
\* stabilizers and s has fewer than 4 characters; otherwise the output cell
\* is s, unchanged: in those four fields from 4 characters on, in name,
\* material, propulsion and notes at any length.
C13_ShortText ==
  Built =>
    \A r \in DOMAIN out.rows : \A f \in TextFields :
      LET s == ReadExcelCell(SheetCell(out.rows[r].idx, f[2]))
          v == Cell(out.rows[r], f[1])
      IN  (HasColumn(out, f[1]) /\ s.t = "str") =>
            /\ isna(v) <=> (f[1] \in MachineryFields /\ Len(s.s) < 4)
            /\ ~isna(v) => v = s

\* A returned row with the engine text "V8", nulled, and the notes text
\* "ok" and the name "A", both shorter than 4 characters, passed through.
C13_Witness ==
  /\ pc = "done"
  /\ IsCellCall
  /\ SheetCell(2, "Largest Engine") = Str(V8)
  /\ isna(Cell(out.rows[1], "engine"))
  /\ Cell(out.rows[1], "notes") = Str(Ok)
  /\ Cell(out.rows[1], "name") = Str(YachtNames[1])
  /\ Cell(out.rows[2], "engine") = Str(MAN_V12)

\* ---------------------------------------------------------- the lengths
\* The four dimensions: <<imperial field, header of the feet, header of the
\* inches, metric field, header of the metres>>.
ImperialFields ==
  { <<"loa_imperial", "Unnamed: 14", "Unnamed: 15", "loa_metric", "LOA">>,
    <<"lwl_imperial", "Unnamed: 11", "Unnamed: 12", "lwl_metric", "LWL">>,
    <<"beam_imperial", "Unnamed: 17", "Unnamed: 18", "beam_metric", "Max beam">>,
    <<"draft_full_load_imperial", "Unnamed: 20", "Unnamed: 21",
      "draft_full_load_metric", "Draft at full load">> }

\* C14: the imperial value of each dimension of a row is the feet plus a
\* twelfth of the inches of the dimension's own two columns (5 feet and 6
\* inches give 5.5); it is null when the feet or the inches are blank or no
\* number, never the feet alone; the metres of the dimension have no part
\* in it, and are emitted as they are.
C14_ImperialComposite ==
  Built =>
    \A r \in DOMAIN out.rows : \A d \in ImperialFields :
      LET i    == out.rows[r].idx
          feet == SheetCell(i, d[2])
          inch == SheetCell(i, d[3])
          v    == Cell(out.rows[r], d[1])
      IN  HasColumn(out, d[1]) =>
            /\ (Parses(feet) /\ Parses(inch)) =>
                 v = Num(NumberOf(feet).n + NumberOf(inch).n \div 12)
            /\ (feet = Num(60) /\ inch = Num(72)) => v = Num(66)
            /\ (~Parses(feet) \/ ~Parses(inch)) => isna(v)
            /\ HasColumn(out, d[4]) =>
                 Cell(out.rows[r], d[4]) =
                   IF Parses(SheetCell(i, d[5])) THEN NumberOf(SheetCell(i, d[5])) ELSE NA

\* A returned row with 5 feet and 6 inches of waterline, and 2 metres of it.
C14_Witness ==
  /\ pc = "done"
  /\ IsCellCall
  /\ SheetCell(2, "Unnamed: 11") = Num(60)
  /\ SheetCell(2, "Unnamed: 12") = Num(72)
  /\ SheetCell(2, "LWL") = Num(24)
  /\ Cell(out.rows[1], "lwl_imperial") = Num(66)
  /\ Cell(out.rows[1], "lwl_metric") = Num(24)
  /\ Cell(out.rows[1], "loa_imperial") = Num(1181)

\* ---------------------------------------------------------- the rounding
\* The rounded fields with the header each is computed from, and the other
\* numeric fields that are computed from one column.
RoundedFields ==
  { <<"price_m2", "Price / m2">>,
    <<"price_gt", "Price/GT  (Euros/Gross Ton)">>,
    <<"price_ton", "Price/Ton  (Euros/Metric Ton)">>,
    <<"consumption", "Consumption (Estimation)">> }
UnroundedEntries ==
  { i \in DOMAIN ASSEMBLY :
      /\ ASSEMBLY[i][1] \notin { f[1] : f \in RoundedFields \cup TextFields \cup ImperialFields }
      /\ ASSEMBLY[i][1] # "displacement_type" }

\* The distance of two numbers.
Dist(a, b) == IF a >= b THEN a - b ELSE b - a

\* C17: price_m2, price_gt, price_ton and consumption of a row are whole
\* numbers no more than a half away from the number in the source cell;
\* they are null when the cell is blank or no number; every other numeric
\* field computed from one column is the number in its cell, unrounded.
\* (Numbers are counted in twelfths: 12 is one, 6 a half.)
C17_Rounding ==
  Built =>
    \A r \in DOMAIN out.rows :
      /\ \A f \in RoundedFields :
           LET x == SheetCell(out.rows[r].idx, f[2])
               v == Cell(out.rows[r], f[1])
           IN  HasColumn(out, f[1]) =>
                 IF Parses(x)
                 THEN /\ v.t = "num"
                      /\ v.n % 12 = 0
                      /\ Dist(v.n, NumberOf(x).n) <= 6
                 ELSE isna(v)
      /\ \A i \in UnroundedEntries :
           LET x == SheetCell(out.rows[r].idx, HeaderOf(ASSEMBLY[i][3]))
               v == Cell(out.rows[r], ASSEMBLY[i][1])
           IN  HasColumn(out, ASSEMBLY[i][1]) =>
                 v = IF Parses(x) THEN NumberOf(x) ELSE NA

\* A returned row with 31/12 euros a gross ton, rounded to 3, and a base
\* price of 12.5, not rounded; the other row's 10.5 a square metre is 10.
C17_Witness ==
  /\ pc = "done"
  /\ IsCellCall
  /\ SheetCell(2, "Price/GT  (Euros/Gross Ton)") = Num(31)
  /\ Cell(out.rows[1], "price_gt") = Num(36)
  /\ Cell(out.rows[1], "base_price") = Num(150)
  /\ Cell(out.rows[2], "price_m2") = Num(120)
  /\ isna(Cell(out.rows[1], "price_ton"))

\* ------------------------------------------------------ the empty result
\* The sheet has every required header and the template is readable and
\* names only assembled fields, the four cleaned ones among them.
IsValidCall ==
  /\ LackingHeaders = {}
  /\ template_file.readable
  /\ UncoveredFields = {}
  /\ \A i \in DOMAIN CleanedColumns : In(CleanedColumns[i], template_file.header)

\* Every row of the sheet is a marker, a "Units" row or a row without a name.
NothingToKeep == SheetRowsIdx = MarkerRows \cup UnitsRows \cup MissingNameRows

\* C18: when every row of a valid sheet is a section marker, a "Units" row
\* or a row without a name, or the sheet has no row, the call raises
\* nothing; the table it builds, returns and writes has the columns of the
\* template in their order and no row.
C18_EmptyResult ==
  (IsValidCall /\ NothingToKeep) =>
    /\ pc = "raised" => error.type = "OSError"
    /\ Built => out = [columns |-> template_file.header, rows |-> << >>]
    /\ pc = "done" =>
         output_file = [exists |-> TRUE, header |-> template_file.header, rows |-> << >>]

\* A call that has returned the empty table for a sheet with a marker, a
\* "Units" row and a row without a name, over a file that had a row.
C18_Witness ==
  /\ pc = "done"
  /\ IsValidCall
  /\ NothingToKeep
  /\ MarkerRows # {} /\ UnitsRows # {} /\ MissingNameRows # {}
  /\ out.rows = << >>
  /\ output_before = OldFile
  /\ output_file.rows = << >>

\* ------------------------------------------------ the unreadable template
\* C19: when the template cannot be read, the call ends at its first step
\* with the error of the template: the sheet has not been read, nothing has
\* been validated or built, the position of a file object and the file at
\* output_path are what they were; with a sheet that lacks required headers
\* too, the error is still the template's, and names no header.
C19_TemplateFirst ==
  (~template_file.readable /\ pc # "template") =>
    /\ pc = "raised"
    /\ error = [type |-> "TemplateError", names |-> << >>, available |-> << >>]
    /\ raw = NoTable
    /\ data = NoTable
    /\ out = NoTable
    /\ target_columns = << >>
    /\ written = 0
    /\ output_file = output_before

\* A call with an unreadable template and a sheet that lacks required
\* headers has failed, over a dataset at output_path.
C19_Witness ==
  /\ pc = "raised"
  /\ ~template_file.readable
  /\ LackingHeaders # {}
  /\ error.type = "TemplateError"
  /\ output_file = OldFile

\* -------------------------------------------------------------- two calls
\* C15: a call after another with the same template and workbook gives what
\* the call before gave: when both return, the same table and the same
\* file; when it raises on the input, the same error as before; it returns
\* only if the call before returned or failed while writing.  Whatever the
\* call before left at output_path, complete or cut short, the file is the
\* written table, also with a file object that the call before left at its
\* end.
C15_Idempotent ==
  calls >= 2 =>
    /\ (pc = "done" /\ first.pc = "done") => (out = first.out /\ output_file = first.file)
    /\ pc = "done" => output_file = CsvFile(out)
    /\ pc = "done" => (first.pc = "done" \/ first.error.type = "OSError")
    /\ (pc = "raised" /\ error.type # "OSError") => (first.pc = "raised" /\ first.error = error)

\* The second call has returned rows from a file object that the first left
\* at its end, over the file of the first.
C15_Witness ==
  /\ calls = 2
  /\ pc = "done"
  /\ first.pc = "done"
  /\ excel_pos = "end"
  /\ out.rows # << >>
  /\ out = first.out
  /\ output_before = first.file
  /\ output_file = first.file

\* ----------------------------------------------------- the page's sidebar
\* The rerun is one with the button clicked, a file uploaded and a sheet
\* selected, and its ETL step is over.
Requested == ui.rebuild /\ ui.file /\ ui.sheet
AfterBuild == Requested /\ ui.pc \in {"rest", "main", "idle"}
Shown(kind) == { i \in DOMAIN ui.messages : ui.messages[i].kind = kind }

\* C20 as stated: in a rerun with the button clicked, a file uploaded and a
\* sheet selected, build_master_csv is called once, never twice; when it has
\* returned, the sidebar shows one success message, with the numbers of
\* rows and of columns of the table; when it has raised, the sidebar shows
\* one error message with the exception, and the run goes on to the paths
\* and the page.
C20_AsStated ==
  /\ Requested => ui.builds = 1
  /\ (AfterBuild /\ pc = "done") =>
       /\ Shown("error") = {}
       /\ \E i \in Shown("success") :
            ui.messages[i].args = << Len(out.rows), Len(out.columns) >>
  /\ (AfterBuild /\ pc = "raised") =>
       /\ Shown("success") = {}
       /\ \E i \in Shown("error") : ui.messages[i].args = << error >>
  /\ (AfterBuild /\ ui.pc = "idle") => (ui.paths /\ ui.page # "none")

\* ------------------------------------------------- two invocations at once
\* The lines of the file, the header first.
FileLines(f) == << f.header >> \o f.rows

\* C16: nothing keeps one invocation from opening the file at output_path
\* while the other one is writing it: whenever one has its table built and
\* the other is between its open and its close, the open of the first can
\* happen, and it empties the file.  The file then holds, place by place, a
\* line of one of the two tables or nothing; a returned invocation does not
\* mean that its table is in the file.
C16_NoMutualExclusion ==
  /\ (pc = "save" /\ other.pc = "writing") => ENABLED OpenOutput
  /\ (other.pc = "save" /\ pc = "writing") => ENABLED OtherOpenOutput
  /\ (pc \in {"writing", "done"} \/ other.pc \in {"writing", "done"}) =>
       LET lines == FileLines(output_file) IN
       \A k \in DOMAIN lines :
         \/ lines[k] = Hole
         \/ k <= LinesOf(out) /\ lines[k] = LineOf(out, k - 1)
         \/ k <= LinesOf(other.out) /\ lines[k] = LineOf(other.out, k - 1)

\* Both invocations have returned and the file at output_path is the table
\* of neither: it has a row of each.
C16_Witness ==
  /\ pc = "done"
  /\ other.pc = "done"
  /\ output_file # CsvFile(out)
  /\ output_file # CsvFile(other.out)
  /\ \E k \in DOMAIN output_file.rows :
       k <= Len(out.rows) /\ output_file.rows[k] = CsvRow(out, out.rows[k])
  /\ \E k \in DOMAIN output_file.rows :
       k <= Len(other.out.rows) /\ output_file.rows[k] = CsvRow(other.out, other.out.rows[k])

\* ------------------------------------------ the templates without a field
\* C21 as stated: with a valid sheet, a call whose template names only
\* assembled fields, in any order, raises nothing and returns and writes a
\* table of exactly the template's fields; so it does for a template
\* without engine, generators, bow_thr or stabilizers, and the table then
\* has no such column.
C21_AsStated ==
  (LackingHeaders = {} /\ template_file.readable /\ UncoveredFields = {}) =>
    /\ pc = "raised" => error.type = "OSError"
    /\ Built =>
         /\ out.columns = template_file.header
         /\ \A r \in DOMAIN out.rows :
              DOMAIN out.rows[r].cells \subseteq Range(template_file.header)
    /\ pc = "done" => output_file.header = template_file.header

\* ------------------------------------------------- the reruns of the page
WidgetKeys == {"cheatsheet_uploader", "cheatsheet_sheet"}

\* C28: build_master_csv is called in a rerun only when the button was
\* clicked, a file is uploaded and a sheet is selected; in every other
\* rerun the file at output_path stays what it was when the rerun began;
\* when the build has returned the keys of the uploader and of the sheet
\* selection are gone from the session state, when it has raised they are
\* both there.
C28_ExplicitRequest ==
  /\ (ui.builds # 0 \/ ui.pc = "etl") => (Requested /\ ui.builds = 1)
  /\ calls <= ui.reruns
  /\ (ui.reruns >= 1 /\ ~Requested) => (ui.builds = 0 /\ output_file = ui.before)
  /\ (AfterBuild /\ pc = "done") => ui.keys \cap WidgetKeys = {}
  /\ (AfterBuild /\ pc = "raised") => WidgetKeys \subseteq ui.keys

\* The second rerun, with a click and no file, after a first rerun whose
\* build wrote the dataset: no call, the file untouched.
C28_Witness ==
  /\ ui.reruns = 2
  /\ ui.pc = "idle"
  /\ ui.rebuild /\ ~ui.file
  /\ calls = 1
  /\ pc = "done"
  /\ output_file = CsvFile(out)
  /\ output_file = ui.before

\* C29: the page below the title is rendered after the sidebar, from the
\* file as the sidebar left it: after a build that returned, the dataset
\* loaded in the same rerun is the table just built; the filters and the
\* tabs are shown only for a file that exists, loads and has rows; and what
\* is at output_path after the sidebar is what was there before it unless
\* the rerun made the call.
C29_Ordering ==
  /\ ui.page # "none" => ui.pc = "idle"
  /\ (ui.pc = "idle" /\ Requested /\ pc = "done") =>
       /\ ui.loaded = CsvFile(out)
       /\ ui.page = IF out.rows = << >> THEN "empty" ELSE "dashboard"
  /\ ui.page = "dashboard" =>
       /\ ui.loaded = output_file
       /\ output_file.exists /\ output_file.header # << >> /\ output_file.rows # << >>
  /\ (ui.pc = "idle" /\ ui.reruns >= 1) =>
       /\ ~output_file.exists => ui.page = "no_dataset"
       /\ (output_file.exists /\ output_file.header = << >>) => ui.page = "load_failed"
  /\ (ui.reruns >= 1 /\ ui.builds = 0) => output_file = ui.before

\* A rerun that replaced the dataset and shows the new one.
C29_Witness ==
  /\ ui.pc = "idle"
  /\ Requested
  /\ pc = "done"
  /\ ui.before = OldFile
  /\ ui.loaded = CsvFile(out)
  /\ ui.loaded # OldFile
  /\ ui.page = "dashboard"

\* ------------------------------------------------------- the column map
\* The internal names that build_master_csv reads: name for the section
\* rows and the filters, the sources of the assembly.
UsedColumns ==
  {"name"} \cup { ASSEMBLY[i][3] : i \in DOMAIN ASSEMBLY } \cup { ASSEMBLY[i][4] : i \in DOMAIN ASSEMBLY }
InternalNames == { EXCEL_COLUMN_PAIRS[i][2] : i \in DOMAIN EXCEL_COLUMN_PAIRS }

\* The map sends no two headers to one name, the required headers are its
\* keys, and what is read is in its range or is displacement_type, which
\* the call adds itself.
MapIsConsistent ==
  /\ \A i, j \in DOMAIN EXCEL_COLUMN_PAIRS :
       (EXCEL_COLUMN_PAIRS[i][2] = EXCEL_COLUMN_PAIRS[j][2]
          \/ EXCEL_COLUMN_PAIRS[i][1] = EXCEL_COLUMN_PAIRS[j][1]) => i = j
  /\ Len(REQUIRED_EXCEL_COLUMNS) = Len(EXCEL_COLUMN_PAIRS)
  /\ \A i \in DOMAIN EXCEL_COLUMN_PAIRS : REQUIRED_EXCEL_COLUMNS[i] = EXCEL_COLUMN_PAIRS[i][1]
  /\ UsedColumns \subseteq InternalNames \cup {"displacement_type"}

\* The sheet has passed header validation; the columns of a name.
Validated == pc \in {"section", "clean", "build", "save", "writing", "done"} \/
             (pc = "raised" /\ error.type \notin {"TemplateError", "ValueError"})
TimesIn(df, c) == Cardinality({ i \in DOMAIN df.columns : df.columns[i] = c })

\* C22 as stated: the map is consistent, so for every sheet that has passed
\* header validation each internal name that is read is the name of exactly
\* one column of the renamed table, and no later step fails for a column.
C22_AsStated ==
  /\ MapIsConsistent
  /\ Validated =>
       /\ \A c \in UsedColumns \ {"displacement_type"} : TimesIn(raw, c) = 1
       /\ pc \in {"clean", "build", "save", "writing", "done"} => TimesIn(raw, "displacement_type") = 1
       /\ pc = "raised" => error.type = "OSError"

\* ------------------------------------------------------------ the loggers
\* The times a record has been put out to one place.
Emitted(record, kind, path) ==
  Cardinality({ i \in DOMAIN logging.output :
                  /\ logging.output[i].record = record
                  /\ logging.output[i].kind = kind
                  /\ logging.output[i].path = path })
HandlerKinds(logger) == [ i \in DOMAIN logger.handlers |-> logger.handlers[i].kind ]
NoRecordTwice ==
  \A r \in 1..logging.records, i \in DOMAIN logging.output :
    Emitted(r, logging.output[i].kind, logging.output[i].path) <= 1

\* C30 as stated: after any number of calls of setup_logger with one name,
\* whatever log_dir and level, the logger has exactly two handlers, a
\* rotating file handler and a console handler, both installed by the first
\* call, and no record is emitted twice.
C30_AsStated ==
  /\ \A n \in LoggerNames :
       logging.began[n] # 0 =>
         /\ HandlerKinds(logging.loggerDict[n]) = << "RotatingFileHandler", "StreamHandler" >>
         /\ \A i \in DOMAIN logging.loggerDict[n].handlers :
              logging.loggerDict[n].handlers[i].call = logging.began[n]
  /\ NoRecordTwice

\* C30, amended: a logger none of whose calls has returned has no handler;
\* once a call with its name has returned, whatever log_dir and level the
\* calls had, it has exactly two handlers, a rotating file handler and a
\* console handler, both installed by the first call that returned; later
\* calls add none and only set the logger's level, and no record is
\* emitted twice.
C30_Idempotent ==
  /\ \A n \in LoggerNames :
       LET logger == logging.loggerDict[n] IN
       /\ logging.returned[n] = 0 => (logger.handlers = << >> /\ ~logger.configured)
       /\ logging.returned[n] # 0 =>
            /\ HandlerKinds(logger) = << "RotatingFileHandler", "StreamHandler" >>
            /\ \A i \in DOMAIN logger.handlers : logger.handlers[i].call = logging.returned[n]
            /\ logger.configured /\ ~logger.propagate
  /\ NoRecordTwice

\* Three calls for yacht_etl have returned, with two directories and two
\* levels, and a record logged after them has gone once to each handler.
C30_Witness ==
  /\ logging.setups = 3
  /\ logging.began["yacht_etl"] = 1 /\ logging.returned["yacht_etl"] = 1
  /\ logging.began["ingest"] = 0
  /\ logging.result = "returned"
  /\ logging.loggerDict["yacht_etl"].level = "INFO"
  /\ logging.loggerDict["yacht_etl"].handlers[1].path = << "logs", "yacht_etl" >>
  /\ logging.records = 3
  /\ Emitted(3, "StreamHandler", << >>) = 1
  /\ Emitted(3, "RotatingFileHandler", << "logs", "yacht_etl" >>) = 1

\* ------------------------------------------------------ the sidebar filters
Rendered == filters.pc = "rendered"
\* Two floats are the same length up to the last place.
SameLength(x, y) == x.n = y.n /\ x.e = y.e
SameRange(p, q) ==
  /\ p.t = "tuple" /\ q.t = "tuple"
  /\ SameLength(p.lo, q.lo) /\ SameLength(p.hi, q.hi)
\* The pair is within the bounds of a slider.
ValidPair(value, bounds) ==
  /\ value.t = "tuple"
  /\ Leq(bounds.lo, value.lo) /\ Leq(value.lo, value.hi) /\ Leq(value.hi, bounds.hi)
\* The dataset as render_filters filters it, and the labels it returns.
NumericDataset == Coerce(filters.df)
ResultLabels == { filters.run.filtered.rows[k].idx : k \in DOMAIN filters.run.filtered.rows }
\* The row passes the filter of a selectbox, of a range slider.
PassesOption(row, c, key) ==
  \/ filters.run.session_state[key].s = All
  \/ ~In(c, filters.df.columns)
  \/ Cell(row, c) = Str(filters.run.session_state[key].s)
Within(row, c, range) ==
  \/ range.t # "tuple"
  \/ ~In(c, filters.df.columns)
  \/ /\ ~isna(Cell(row, c))
     /\ Leq(range.lo, Float(Cell(row, c).n)) /\ Leq(Float(Cell(row, c).n), range.hi)
IsNull(row, c) == isna(Cell(row, c)) /\ In(c, filters.df.columns)

\* C23 as stated: when only the length unit has changed since the rerun
\* before, the LOA range applied, in metres, is the range applied before
\* the change or the full range of the data.
C23_AsStated ==
  (Rendered /\ filters.event = "unit" /\ filters.run.loa_range_m.t = "tuple") =>
    \/ SameRange(filters.run.loa_range_m, filters.before.run.loa_range_m)
    \/ SameRange(filters.run.loa_range_m, filters.run.loa_data)

\* C24: on every rerun, whatever state the reruns before have left and
\* whatever the dataset has become, the state each widget is rendered with
\* is valid for the data: the two selections are options of the lists, the
\* two pairs lie within the bounds of their sliders with lo <= hi; a pair
\* that was within the bounds is kept, any other is replaced by the bounds,
\* a selection that is no option by "All".
C24_GuardHolds ==
  Rendered =>
    LET s == filters.run.session_state
        given == filters.before.run.session_state
        kept == filters.event \in { "unit", "dataset" }
    IN  /\ s[disp_key].t = "str" /\ s[disp_key].s \in filters.run.disp_opts
        /\ s[mat_key].t = "str" /\ s[mat_key].s \in filters.run.mat_opts
        /\ filters.run.price_bounds.t = "tuple" => ValidPair(s[price_key], filters.run.price_bounds)
        /\ filters.run.loa_bounds.t = "tuple" => ValidPair(s[loa_key], filters.run.loa_bounds)
        /\ kept =>
             /\ s[disp_key] = IF given[disp_key].s \in filters.run.disp_opts
                              THEN given[disp_key] ELSE Choice(All)
             /\ s[mat_key] = IF given[mat_key].s \in filters.run.mat_opts
                             THEN given[mat_key] ELSE Choice(All)
             /\ filters.run.price_bounds.t = "tuple" =>
                  s[price_key] = IF ValidPair(given[price_key], filters.run.price_bounds)
                                 THEN given[price_key] ELSE filters.run.price_bounds
             /\ filters.run.loa_bounds.t = "tuple" =>
                  s[loa_key] = IF ValidPair(given[loa_key], filters.run.loa_bounds)
                               THEN given[loa_key] ELSE filters.run.loa_bounds

\* The dataset has changed under a selection and a price range that the
\* new data do not have: both are back at their defaults.
C24_Witness ==
  /\ Rendered /\ filters.event = "dataset"
  /\ filters.df = Pair29
  /\ filters.before.run.session_state[disp_key] = Choice(SEMI_DISPLACEMENT)
  /\ filters.before.run.session_state[price_key] = Pair(Whole(5), Whole(20))
  /\ filters.run.session_state[disp_key] = Choice(All)
  /\ filters.run.session_state[price_key] = Pair(Whole(5), Whole(12))

\* C25 as stated: on a rerun in which "Reset filters" was clicked the four
\* states are at their defaults when the widgets are rendered, and
\* render_filters returns every row of the dataset.
C25_AsStated ==
  (Rendered /\ filters.reset_filters) =>
    /\ filters.run.session_state[disp_key] = Choice(All)
    /\ filters.run.session_state[mat_key] = Choice(All)
    /\ filters.run.price_bounds.t = "tuple" =>
         filters.run.session_state[price_key] = filters.run.price_bounds
    /\ filters.run.loa_bounds.t = "tuple" =>
         filters.run.session_state[loa_key] = filters.run.loa_bounds
    /\ ResultLabels = { filters.df.rows[i].idx : i \in DOMAIN filters.df.rows }

\* C26: render_filters returns a filtered copy: the rows returned are rows
\* of df (with base_price and loa_metric as numbers) in their order, so no
\* more than df has; a row is returned exactly when it passes the four
\* filters; the caller's df is after the call what it was before.
C26_FilteredCopy ==
  Rendered =>
    LET result == filters.run.filtered.rows
        rows == NumericDataset.rows
    IN  /\ filters.run.caller_df = filters.df
        /\ filters.run.filtered.columns = filters.df.columns
        /\ Len(result) <= Len(filters.df.rows)
        /\ \A k \in DOMAIN result : \E i \in DOMAIN rows : result[k] = rows[i]
        /\ \A k \in DOMAIN result : k > 1 => result[k - 1].idx < result[k].idx
        /\ \A i \in DOMAIN rows :
             rows[i].idx \in ResultLabels <=>
               /\ PassesOption(rows[i], "displacement_type", disp_key)
               /\ PassesOption(rows[i], "material", mat_key)
               /\ IsNull(rows[i], "base_price") \/ Within(rows[i], "base_price", filters.run.price_range)
               /\ IsNull(rows[i], "loa_metric") \/ Within(rows[i], "loa_metric", filters.run.loa_range_m)

\* A material is selected in a dataset with text in its price column: two
\* of the four rows are returned, and the caller's table still has the text.
C26_Witness ==
  /\ Rendered /\ filters.df = Gaps
  /\ filters.run.session_state[mat_key] = Choice(GRP)
  /\ ResultLabels = { 2, 3 }
  /\ Cell(filters.run.filtered.rows[1], "base_price") = NA
  /\ Cell(filters.run.caller_df.rows[3], "base_price") = Str(NotKnown)

=============================================================================
